---- MODULE Spec2Model ----
(***************************************************************************)
(* AION2_AutoSim: the automation program and its autoplay simulation.      *)
(*                                                                         *)
(* The state machines of this module each have their own variables and     *)
(* their own specification:                                                *)
(*   SpecManager    SkillComboManager     (src/skill_combo_manager.py)      *)
(*   SpecPlanner    ActionPlanner         (src/action_planner.py)           *)
(*   SpecTarget     ActionPlanner._find_target_mob as a pure function       *)
(*   SpecWindow     MainWindow automation lifecycle (src/main.py)           *)
(*   SpecModes      choose_actionable_mode over every configuration         *)
(*   SpecCapture    CaptureWorker and a reader (src/capture.py)             *)
(*   SpecAhk        AHKHardwareController (src/ahk_controller.py)           *)
(*   SpecRewrite    the editors' rewrites of skill_combo_config.py          *)
(*   SpecElevation  the processes of main.py and their elevation           *)
(*   SpecAstar      one call of astar (src/pathfinding.py); the call keeps *)
(*                  running until it returns, hence weak fairness          *)
(*   SpecPlay       the autoplay simulation (src/autoplay.py, combat.py)   *)
(*   SpecPriority   get_enabled_combo_sets over every configuration        *)
(*   SpecValidate   validate_combo_set and validate_configuration          *)
(*   SpecWorkflow   run_workflow_on_bytes (src/roboflow_client.py)         *)
(*   SpecResize     resize_keep_aspect (src/utils.py)                      *)
(*   SpecCycle      one cycle of plan_and_execute, input call by input call*)
(*   SpecDriven     the manager driven by one thread or by two             *)
(*   SpecDetector   Detector's start, stop and loop (src/detection.py)     *)
(*   SpecSteer      the navigation branch of plan_and_execute              *)
(*   SpecStealth    try_stealth_attack, call by call                       *)
(*   SpecTap        tap_key (src/input_controller.py)                      *)
(*   SpecParse      parse_predictions (src/roboflow_client.py)             *)
(*   SpecEditor     the combo editor's New Combo and the manager           *)
(*   SpecClick      the click point of the attack branch                   *)
(*   SpecHunt       AutoPlayController.tick called for ever                *)
(* A specification leaves the variables of the other machines unchanged.   *)
(*                                                                         *)
(* Time is the value of time.time().  The manager counts it in ticks of    *)
(* two seconds, the planner in ticks of its reduced configuration.         *)
(***************************************************************************)
EXTENDS Integers, Sequences, FiniteSets, TLC

VARIABLES
    \* ---- SkillComboManager ----
    mnow,                   \* time.time() as the manager reads it
    skill_cooldowns,        \* self._skill_cooldowns: keybind -> last used
    combo_cooldowns,        \* self._combo_cooldowns: combo name -> last used
    last_single_skill_use,  \* self._last_single_skill_use
    SKILL_COMBO_ENABLED,    \* skill_combo_config.SKILL_COMBO_ENABLED
    mlast,                  \* the last call made on the manager and its result
    skill_used,             \* history: keybind -> time its key was last sent
    combo_used,             \* history: combo -> time it last ran to the end
    calls,                  \* history: the executing calls made so far
    single_uses,            \* history: times of the successful single-skill
                            \* uses, with the resets between them
    \* _find_target_mob on its own
    t_detections,           \* the detections handed to it
    t_rect,                 \* what get_window_rect returns
    t_target,               \* what it returned
    t_done,                 \* whether it has returned
    \* ---- ActionPlanner ----
    pnow,                   \* time.time() of the planner's clock
    enabled,
    last_action,            \* _last_action
    target_locked,          \* _target_locked (NoneDet for None)
    action_count,           \* _action_count
    last_idle_check,        \* _last_idle_check
    in_idle_state,          \* _in_idle_state
    idle_until,             \* _idle_until
    current_movement_pattern,
    movement_pattern_start,
    movement_pattern_duration,
    plast,                  \* the last cycle: its branch and the input it sent
    last_pass,              \* history: time of the last cycle past the gates
    last_roll,              \* history: time of the last idle roll
    idle_starts,            \* history: the times the idle periods started
    cycles,                 \* history: the calls made on the planner
    \* ---- MainWindow ----
    automation_enabled,     \* self._automation_enabled
    controller,             \* self._controller
    overlay_indicator,      \* what the overlay shows as the automation state
    overlay_shown,          \* the overlay is visible
    pos_timer,              \* self._pos_timer is running
    start_btn,              \* self.start_btn is enabled
    stop_btn,               \* self.stop_btn is enabled
    window_selected,        \* self.win_combo.currentIndex() >= 0
    wlast,                  \* the last call on the window and how it ended
    \* ---- choose_actionable_mode on its own ----
    a_manager,              \* the manager it is called on
    a_combos_on,            \* skill_combo_config.SKILL_COMBO_ENABLED
    a_config,               \* ATTACK_MODE_WEIGHTS, REQUIRE_MOB_HEALTH_FOR_SKILLS
    a_has_health,           \* its argument
    a_mode,                 \* what it returned
    a_done,                 \* whether it has returned
    \* ---- CaptureWorker ----
    running,                \* self.running (the Event is set)
    latest_frame,           \* self.latest_frame: a frame object, 0 for None
    lock,                   \* who holds self._lock
    last_window_size,       \* self._last_window_size
    frames,                 \* the frame objects in memory: object -> pixels
    wpc,                    \* the worker thread: where run() stands
    wframe,                 \* the worker's local variable frame
    rpc,                    \* the reader: where get_latest_frame stands
    rret,                   \* what get_latest_frame returned (0 for None)
    clast,                  \* the last step taken and how it ended
    stored,                 \* history: the captures stored, in order
    stores_since_stop,      \* history: stores made since the flag was cleared
    grabs,                  \* history: the screen grabs made
    captured_from,          \* history: grab -> the window size it captured
    rsize,                  \* what get_window_size returned to the reader
    \* ---- AHKHardwareController ----
    ahk_exe,                \* self.ahk_exe is a path (not None)
    script_exists,          \* self.script_path.exists()
    process,                \* self.process: a child, 0 for None
    is_running,             \* self.is_running
    children,               \* the child processes launched: child -> state
    hlast,                  \* the last call on the controller and its result
    \* ---- the configuration file and its rewrites ----
    config_lines,           \* skill_combo_config.py as readlines() gives it
    config_items,           \* the same file as declarations and other lines
    slast,                  \* the last save made
    saves,                  \* history: the saves made so far
    \* ---- the processes of main.py ----
    procs,                  \* the processes launched, the first by the user
    elast,                  \* the last step taken: its process and its name
    \* ---- one call of astar ----
    grid_w,                 \* width
    grid_h,                 \* height
    pf_start,               \* start
    pf_goal,                \* goal
    open_set,               \* the heap of (f, position) entries
    came_from,              \* position -> the position it was reached from
    g_score,                \* position -> steps from start
    pf_pc,                  \* where the call stands: call, loop or done
    pf_ret,                 \* what the call returned
    \* ---- the autoplay simulation ----
    sim_now,                \* time.time() as the skills read it
    player,                 \* AutoPlayController.player
    enemies,                \* AutoPlayController.grid.enemies
    ai_state,               \* AutoPlayController.state
    klast,                  \* the last call made and what it did
    sim_calls,              \* history: the ticks and attacks made so far
    \* ---- one call of get_enabled_combo_sets ----
    file_combo_sets,        \* COMBO_SETS as configured
    file_combo_priority,    \* COMBO_PRIORITY as configured
    combo_ret,              \* what the call returned
    combo_pc,               \* where the call stands: call or done
    \* ---- the validation of the configuration ----
    val_cooldowns,          \* SKILL_COOLDOWNS as configured
    val_combo_sets,         \* COMBO_SETS as configured
    val_combo,              \* the argument of validate_combo_set
    vlast,                  \* the last validation called and its outcome
    \* ---- WorkflowClient.run_workflow_on_bytes ----
    wf_pc,                  \* where the call stands: idle, try, call, finally
    wf_path,                \* the path mkstemp returned to the running call
    wf_files,               \* the temporary files that exist
    wf_pending,             \* the exception the try block left, or "none"
    wf_last,                \* how the last call left the function
    wf_kept,                \* history: the paths whose os.unlink failed
    wf_calls,               \* history: the calls begun
    rz_w,              \* width of the image handed to resize_keep_aspect
    rz_h,              \* height of that image
    rz_target,         \* the target_max argument
    rz_out,            \* what the call produced
    rz_pc,             \* "call" before the call, "done" after it
    cy_p,              \* the planner of the step-wise cycle (the fields of Planner)
    cy_clock,          \* time.time() in seconds at the last call
    cy_ahk,            \* USE_HARDWARE_AHK of input_controller
    cy_pc,             \* "idle" between calls, "running" inside plan_and_execute
    cy_prog,           \* the calls the running plan_and_execute has still to make
    cy_t,              \* hundredths of a second slept since the call began
    cy_events,         \* the input sent and the sleeps taken by the running call
    cy_branch,         \* the branch the running (or last) call took
    cy_raising,        \* an exception is leaving the running call
    cy_how,            \* how the last call ended: "none", "returned", "raised"
    cy_errors,         \* logger.error calls of the running call
    cy_hold,           \* the hold duration drawn by the running call, 0 if none
    cy_late,           \* the running call sent input after set_enabled(False)
    cy_faults,         \* history: input calls that raised
    cy_calls,          \* history: calls of plan_and_execute
    cy_toggles,        \* history: calls of set_enabled
    dv_cfg,            \* COMBO_SETS of the run
    dv_n,              \* the number of threads that call the manager
    dv_m,              \* the manager the threads share: [now, skills, combos, single]
    dv_th,             \* thread -> where it stands in its call
    dv_unready,        \* history: keys sent for a skill that was on cooldown
    dv_restarts,       \* history: combos started within their own cooldown
    dv_calls,          \* history: calls begun
    dt_running,        \* Detector.running
    dt_thread,         \* Detector._thread: the thread created last, 0 for None
    dt_on_detect,      \* Detector.on_detect: the start() that set it, 0 before
    dt_threads,        \* the loop threads created, each "test", "body" or "done"
    dt_iters,          \* the iterations each loop thread has begun
    dt_pc,             \* the caller: "idle" or "joining" (inside stop)
    dt_timeouts,       \* history: the joins that timed out
    dt_calls,          \* history: the calls of start and stop
    dt_stale,          \* history: callbacks invoked by a thread that is not the latest
    sr_dots,           \* the detections of the frame: map dots only
    sr_d,              \* the durations drawn
    sr_pc,             \* "frame" before the cycle, "done" after it
    sr_keys,           \* the keys the cycle tapped
    sr_prog,           \* the input calls and sleeps the cycle made, in order
    sa_m,              \* the manager when try_stealth_attack is called
    sa_cfg,            \* ATTACK_MODE_WEIGHTS and REQUIRE_MOB_HEALTH_FOR_SKILLS
    sa_has_health,     \* the argument has_health
    sa_pc,             \* "call" before the call, "done" after it
    sa_mode,           \* the mode choose_actionable_mode returned ("none": not asked)
    sa_ret,            \* the pair returned
    sa_after,          \* the manager after the call
    sa_sent,           \* the keys sent during the call
    sa_calls,          \* the calls made on the manager's executing methods, in order
    \* ---- input_controller.tap_key ----
    tk_ahk,            \* USE_HARDWARE_AHK, fixed when the module is imported
    tk_key,            \* the argument key
    tk_presses,        \* the argument presses
    tk_pc,             \* where the call stands: "idle", "ahk", "lookup",
                       \* "down", "up", "returned" or "raised"
    tk_i,              \* iterations of the current for loop completed
    tk_vk,             \* vk_code once looked up, 0 before
    tk_events,         \* what reached the backends, in order
    tk_failed,         \* the backends that raised during the call
    \* ---- WorkflowClient.parse_predictions ----
    pr_form,           \* how the box is written: "list", "dict" or "top"
    pr_units,          \* "pixels" or "normalized"
    pr_box,            \* the corners written: <<xmin, ymin, xmax, ymax>>
    pr_frame,          \* the argument frame_size, <<>> for None
    pr_pc,             \* "call" before the call, "done" after it
    pr_out,            \* the list returned
    \* ---- the combo editor and the manager that reads its list ----
    ed_combos,         \* skill_combo_config.COMBO_SETS, the list the editor edits
    ed_m,              \* the manager
    ed_last,           \* the last call on the manager and what it reported
    ed_calls,          \* calls made on the manager
    \* ---- the attack click of plan_and_execute ----
    ck_target,         \* the mob detection attacked
    ck_a,              \* the draws: click depth and mouse jitter
    ck_pc,             \* "call" before the cycle, "done" after it
    ck_click,          \* the screen point double-clicked
    \* ---- AutoPlayController: tick() called again and again ----
    hn_p,              \* controller.player
    hn_es,             \* grid.enemies
    hn_last,           \* the last tick: what it did, and the state it began in
    hn_loots,          \* how many times each enemy's loot table was collected
    hn_attacked,       \* the enemies attacked so far
    hn_ticks           \* the parity of the number of ticks made

mgrVars == <<mnow, skill_cooldowns, combo_cooldowns, last_single_skill_use,
             SKILL_COMBO_ENABLED, mlast, skill_used, combo_used, calls,
             single_uses>>

tgtVars == <<t_detections, t_rect, t_target, t_done>>

planVars == <<pnow, enabled, last_action, target_locked, action_count,
              last_idle_check, in_idle_state, idle_until,
              current_movement_pattern, movement_pattern_start,
              movement_pattern_duration, plast, last_pass, last_roll,
              idle_starts, cycles>>

winVars == <<automation_enabled, controller, overlay_indicator, overlay_shown,
             pos_timer, start_btn, stop_btn, window_selected, wlast>>

modeVars == <<a_manager, a_combos_on, a_config, a_has_health, a_mode, a_done>>

capVars == <<running, latest_frame, lock, last_window_size, frames, wpc, wframe,
             rpc, rret, clast, stored, stores_since_stop, grabs,
             captured_from, rsize>>

ahkVars == <<ahk_exe, script_exists, process, is_running, children, hlast>>

cfgVars == <<config_lines, config_items, slast, saves>>

elevVars == <<procs, elast>>

pfVars == <<grid_w, grid_h, pf_start, pf_goal, open_set, came_from, g_score,
            pf_pc, pf_ret>>

playVars == <<sim_now, player, enemies, ai_state, klast, sim_calls>>

prioVars == <<file_combo_sets, file_combo_priority, combo_ret, combo_pc>>

valVars == <<val_cooldowns, val_combo_sets, val_combo, vlast>>

wfVars == <<wf_pc, wf_path, wf_files, wf_pending, wf_last, wf_kept, wf_calls>>

rzVars == <<rz_w, rz_h, rz_target, rz_out, rz_pc>>

cyVars == <<cy_p, cy_clock, cy_ahk, cy_pc, cy_prog, cy_t, cy_events, cy_branch,
            cy_raising, cy_how, cy_errors, cy_hold, cy_late, cy_faults,
            cy_calls, cy_toggles>>

dvVars == <<dv_cfg, dv_n, dv_m, dv_th, dv_unready, dv_restarts, dv_calls>>

dtVars == <<dt_running, dt_thread, dt_on_detect, dt_threads, dt_iters, dt_pc,
            dt_timeouts, dt_calls, dt_stale>>

srVars == <<sr_dots, sr_d, sr_pc, sr_keys, sr_prog>>

saVars == <<sa_m, sa_cfg, sa_has_health, sa_pc, sa_mode, sa_ret, sa_after, sa_sent,
            sa_calls>>

tkVars == <<tk_ahk, tk_key, tk_presses, tk_pc, tk_i, tk_vk, tk_events, tk_failed>>

prVars == <<pr_form, pr_units, pr_box, pr_frame, pr_pc, pr_out>>

edVars == <<ed_combos, ed_m, ed_last, ed_calls>>

ckVars == <<ck_target, ck_a, ck_pc, ck_click>>

hnVars == <<hn_p, hn_es, hn_last, hn_loots, hn_attacked, hn_ticks>>

vars == <<mgrVars, tgtVars, planVars, winVars, modeVars, capVars, ahkVars,
          cfgVars, elevVars, pfVars, playVars, prioVars, valVars, wfVars,
          rzVars, cyVars, dvVars, dtVars, srVars, saVars, tkVars, prVars,
          edVars, ckVars, hnVars>>

\* what the actions of one machine leave alone: the other machines
mgrRest == <<tgtVars, planVars, winVars, modeVars, capVars, ahkVars,
             cfgVars, elevVars, pfVars, playVars, prioVars, valVars, wfVars,
             rzVars, cyVars, dvVars, dtVars, srVars, saVars, tkVars, prVars,
             edVars, ckVars, hnVars>>
tgtRest == <<mgrVars, planVars, winVars, modeVars, capVars, ahkVars,
             cfgVars, elevVars, pfVars, playVars, prioVars, valVars, wfVars,
             rzVars, cyVars, dvVars, dtVars, srVars, saVars, tkVars, prVars,
             edVars, ckVars, hnVars>>
planRest == <<mgrVars, tgtVars, winVars, modeVars, capVars, ahkVars,
              cfgVars, elevVars, pfVars, playVars, prioVars, valVars,
              wfVars, rzVars, cyVars, dvVars, dtVars, srVars, saVars,
              tkVars, prVars, edVars, ckVars, hnVars>>
winRest == <<mgrVars, tgtVars, planVars, modeVars, capVars, ahkVars,
             cfgVars, elevVars, pfVars, playVars, prioVars, valVars, wfVars,
             rzVars, cyVars, dvVars, dtVars, srVars, saVars, tkVars, prVars,
             edVars, ckVars, hnVars>>
modeRest == <<mgrVars, tgtVars, planVars, winVars, capVars, ahkVars,
              cfgVars, elevVars, pfVars, playVars, prioVars, valVars,
              wfVars, rzVars, cyVars, dvVars, dtVars, srVars, saVars,
              tkVars, prVars, edVars, ckVars, hnVars>>
capRest == <<mgrVars, tgtVars, planVars, winVars, modeVars, ahkVars,
             cfgVars, elevVars, pfVars, playVars, prioVars, valVars, wfVars,
             rzVars, cyVars, dvVars, dtVars, srVars, saVars, tkVars, prVars,
             edVars, ckVars, hnVars>>
ahkRest == <<mgrVars, tgtVars, planVars, winVars, modeVars, capVars,
             cfgVars, elevVars, pfVars, playVars, prioVars, valVars, wfVars,
             rzVars, cyVars, dvVars, dtVars, srVars, saVars, tkVars, prVars,
             edVars, ckVars, hnVars>>
cfgRest == <<mgrVars, tgtVars, planVars, winVars, modeVars, capVars,
             ahkVars, elevVars, pfVars, playVars, prioVars, valVars, wfVars,
             rzVars, cyVars, dvVars, dtVars, srVars, saVars, tkVars, prVars,
             edVars, ckVars, hnVars>>
elevRest == <<mgrVars, tgtVars, planVars, winVars, modeVars, capVars,
              ahkVars, cfgVars, pfVars, playVars, prioVars, valVars, wfVars,
              rzVars, cyVars, dvVars, dtVars, srVars, saVars, tkVars,
              prVars, edVars, ckVars, hnVars>>
pfRest == <<mgrVars, tgtVars, planVars, winVars, modeVars, capVars, ahkVars,
            cfgVars, elevVars, playVars, prioVars, valVars, wfVars, rzVars,
            cyVars, dvVars, dtVars, srVars, saVars, tkVars, prVars, edVars,
            ckVars, hnVars>>
playRest == <<mgrVars, tgtVars, planVars, winVars, modeVars, capVars,
              ahkVars, cfgVars, elevVars, pfVars, prioVars, valVars, wfVars,
              rzVars, cyVars, dvVars, dtVars, srVars, saVars, tkVars,
              prVars, edVars, ckVars, hnVars>>
prioRest == <<mgrVars, tgtVars, planVars, winVars, modeVars, capVars,
              ahkVars, cfgVars, elevVars, pfVars, playVars, valVars, wfVars,
              rzVars, cyVars, dvVars, dtVars, srVars, saVars, tkVars,
              prVars, edVars, ckVars, hnVars>>
valRest == <<mgrVars, tgtVars, planVars, winVars, modeVars, capVars,
             ahkVars, cfgVars, elevVars, pfVars, playVars, prioVars, wfVars,
             rzVars, cyVars, dvVars, dtVars, srVars, saVars, tkVars, prVars,
             edVars, ckVars, hnVars>>
wfRest == <<mgrVars, tgtVars, planVars, winVars, modeVars, capVars, ahkVars,
            cfgVars, elevVars, pfVars, playVars, prioVars, valVars, rzVars,
            cyVars, dvVars, dtVars, srVars, saVars, tkVars, prVars, edVars,
            ckVars, hnVars>>
rzRest == <<mgrVars, tgtVars, planVars, winVars, modeVars, capVars, ahkVars,
            cfgVars, elevVars, pfVars, playVars, prioVars, valVars, wfVars,
            cyVars, dvVars, dtVars, srVars, saVars, tkVars, prVars, edVars,
            ckVars, hnVars>>
cyRest == <<mgrVars, tgtVars, planVars, winVars, modeVars, capVars, ahkVars,
            cfgVars, elevVars, pfVars, playVars, prioVars, valVars, wfVars,
            rzVars, dvVars, dtVars, srVars, saVars, tkVars, prVars, edVars,
            ckVars, hnVars>>
dvRest == <<mgrVars, tgtVars, planVars, winVars, modeVars, capVars, ahkVars,
            cfgVars, elevVars, pfVars, playVars, prioVars, valVars, wfVars,
            rzVars, cyVars, dtVars, srVars, saVars, tkVars, prVars, edVars,
            ckVars, hnVars>>
dtRest == <<mgrVars, tgtVars, planVars, winVars, modeVars, capVars, ahkVars,
            cfgVars, elevVars, pfVars, playVars, prioVars, valVars, wfVars,
            rzVars, cyVars, dvVars, srVars, saVars, tkVars, prVars, edVars,
            ckVars, hnVars>>
srRest == <<mgrVars, tgtVars, planVars, winVars, modeVars, capVars, ahkVars,
            cfgVars, elevVars, pfVars, playVars, prioVars, valVars, wfVars,
            rzVars, cyVars, dvVars, dtVars, saVars, tkVars, prVars, edVars,
            ckVars, hnVars>>
saRest == <<mgrVars, tgtVars, planVars, winVars, modeVars, capVars, ahkVars,
            cfgVars, elevVars, pfVars, playVars, prioVars, valVars, wfVars,
            rzVars, cyVars, dvVars, dtVars, srVars, tkVars, prVars, edVars,
            ckVars, hnVars>>
tkRest == <<mgrVars, tgtVars, planVars, winVars, modeVars, capVars, ahkVars,
            cfgVars, elevVars, pfVars, playVars, prioVars, valVars, wfVars,
            rzVars, cyVars, dvVars, dtVars, srVars, saVars, prVars, edVars,
            ckVars, hnVars>>
prRest == <<mgrVars, tgtVars, planVars, winVars, modeVars, capVars, ahkVars,
            cfgVars, elevVars, pfVars, playVars, prioVars, valVars, wfVars,
            rzVars, cyVars, dvVars, dtVars, srVars, saVars, tkVars, edVars,
            ckVars, hnVars>>
edRest == <<mgrVars, tgtVars, planVars, winVars, modeVars, capVars, ahkVars,
            cfgVars, elevVars, pfVars, playVars, prioVars, valVars, wfVars,
            rzVars, cyVars, dvVars, dtVars, srVars, saVars, tkVars, prVars,
            ckVars, hnVars>>
ckRest == <<mgrVars, tgtVars, planVars, winVars, modeVars, capVars, ahkVars,
            cfgVars, elevVars, pfVars, playVars, prioVars, valVars, wfVars,
            rzVars, cyVars, dvVars, dtVars, srVars, saVars, tkVars, prVars,
            edVars, hnVars>>
hnRest == <<mgrVars, tgtVars, planVars, winVars, modeVars, capVars, ahkVars,
            cfgVars, elevVars, pfVars, playVars, prioVars, valVars, wfVars,
            rzVars, cyVars, dvVars, dtVars, srVars, saVars, tkVars, prVars,
            edVars, ckVars>>

----------------------------------------------------------------------------
(* Small helpers                                                           *)

Max(a, b) == IF a >= b THEN a ELSE b
Min(a, b) == IF a <= b THEN a ELSE b

RECURSIVE SumSeq(_)
SumSeq(s) == IF s = <<>> THEN 0 ELSE Head(s) + SumSeq(Tail(s))

\* a mapping with one entry set (dict[key] = value)
Put(f, key, value) ==
    [x \in (DOMAIN f) \cup {key} |-> IF x = key THEN value ELSE f[x]]

\* the empty mapping ({} of Python)
EmptyMap == [x \in {} |-> 0]

----------------------------------------------------------------------------
(* skill_combo_config.py: the configuration the manager reads.  The        *)
(* configuration is data the editors of main.py rewrite; the model runs on *)
(* a reduced configuration of three configured keybinds and three combo    *)
(* sets, with cooldowns of a few ticks (a tick is two seconds).            *)

\* the ticks the clock runs for
Horizon == 6

\* SINGLE_SKILL_GLOBAL_COOLDOWN (one tick in the model's configuration)
SINGLE_SKILL_GLOBAL_COOLDOWN == 1

\* time.time() when the manager is constructed: the real clock is about
\* 1.7e9, so the cooldown counted from 0.0 has elapsed by then
StartTime == SINGLE_SKILL_GLOBAL_COOLDOWN

\* get_skill_cooldown: 10.0 s for a keybind missing from SKILL_COOLDOWNS
DefaultSkillCooldown == 5

\* the last tick of the clock
MaxTime == StartTime + Horizon

\* combo.get('cooldown', 60.0): 60.0 s
DefaultComboCooldown == 30

\* DELAY_RANDOMIZATION, in percent
DELAY_RANDOMIZATION == 15

ConfiguredSkills == {"1", "2", "alt+1"}

SKILL_COOLDOWNS == [k \in ConfiguredSkills |->
                      CASE k = "1"     -> 2
                        [] k = "2"     -> 3
                        [] k = "alt+1" -> 2]

\* every keybind a caller passes: the configured ones, an upper-case spelling
\* and a keybind that is not configured
Keybinds == {"1", "2", "ALT+1", "f5"}

\* str.lower()
Lower(k) == IF k = "ALT+1" THEN "alt+1" ELSE k

COMBO_SETS == <<
    [name |-> "Basic", skills |-> <<"1", "2">>, cooldown |-> 5,
     delay_between_skills |-> 1, enabled |-> TRUE],
    [name |-> "Buff", skills |-> <<"1", "ALT+1", "2">>, cooldown |-> 4,
     delay_between_skills |-> 0, enabled |-> TRUE],
    [name |-> "Off", skills |-> <<"2">>, cooldown |-> 2,
     delay_between_skills |-> 0, enabled |-> FALSE] >>

\* COMBO_PRIORITY: None, or a list of indexes
NoPriority == [given |-> FALSE, order |-> <<>>]
Priority(order) == [given |-> TRUE, order |-> order]

COMBO_PRIORITY == NoPriority

SINGLE_SKILL_POOL == <<"1", "ALT+1">>

ComboNames == {COMBO_SETS[i].name : i \in DOMAIN COMBO_SETS}

ComboNamed(n) == CHOOSE c \in {COMBO_SETS[i] : i \in DOMAIN COMBO_SETS} : c.name = n

get_skill_cooldown(skill) ==
    IF Lower(skill) \in DOMAIN SKILL_COOLDOWNS
    THEN SKILL_COOLDOWNS[Lower(skill)]
    ELSE DefaultSkillCooldown

\* get_randomized_delay: the delays random.uniform can return, in whole ticks
get_randomized_delay(base) ==
    {d \in 0..(2 * base) : 100 * d >= (100 - DELAY_RANDOMIZATION) * base
                        /\ 100 * d <= (100 + DELAY_RANDOMIZATION) * base}

\* combo.get('enabled', True)
EnabledFlag(combo) ==
    IF "enabled" \in DOMAIN combo THEN combo.enabled ELSE TRUE

\* the first loop of get_enabled_combo_sets, from the i-th entry of
\* COMBO_PRIORITY on: the entries index the list of enabled combos, from 0
RECURSIVE by_priority(_, _, _, _)
by_priority(enabled_list, order, i, ordered) ==
    IF i > Len(order) THEN ordered
    ELSE IF 0 <= order[i] /\ order[i] < Len(enabled_list)
    THEN by_priority(enabled_list, order, i + 1,
                     Append(ordered, enabled_list[order[i] + 1]))
    ELSE by_priority(enabled_list, order, i + 1, ordered)

\* the second loop: the enabled combos not in ordered, in their order
RECURSIVE not_in_priority(_, _, _)
not_in_priority(enabled_list, i, ordered) ==
    IF i > Len(enabled_list) THEN ordered
    ELSE IF \E j \in DOMAIN ordered : ordered[j] = enabled_list[i]
    THEN not_in_priority(enabled_list, i + 1, ordered)
    ELSE not_in_priority(enabled_list, i + 1, Append(ordered, enabled_list[i]))

\* get_enabled_combo_sets, of the COMBO_SETS and COMBO_PRIORITY given; the
\* entries of COMBO_PRIORITY are integers, so the loops do not raise
enabled_combo_sets(combo_sets, priority) ==
    LET enabled_list == SelectSeq(combo_sets, EnabledFlag)
    IN  IF priority.given
        THEN not_in_priority(enabled_list, 1,
                             by_priority(enabled_list, priority.order, 1, <<>>))
        ELSE enabled_list

get_enabled_combo_sets == enabled_combo_sets(COMBO_SETS, COMBO_PRIORITY)

\* parse_skill_keybind: the modifier of a keybind ("none", "alt" or "ctrl")
parse_skill_keybind(skill) ==
    IF Lower(skill) = "alt+1" THEN <<"alt", "1">> ELSE <<"none", Lower(skill)>>

----------------------------------------------------------------------------
(* SkillComboManager.  Every method takes the manager m (self and the      *)
(* clock it reads): [now, skills, combos, single].                         *)

Manager == [now |-> mnow, skills |-> skill_cooldowns,
            combos |-> combo_cooldowns, single |-> last_single_skill_use]

is_skill_ready(m, skill) ==
    IF Lower(skill) \notin DOMAIN m.skills
    THEN TRUE
    ELSE m.now - m.skills[Lower(skill)] >= get_skill_cooldown(Lower(skill))

ComboCooldownOf(combo) ==
    IF "cooldown" \in DOMAIN combo THEN combo.cooldown ELSE DefaultComboCooldown

is_combo_ready(m, combo) ==
    IF combo.name \notin DOMAIN m.combos
    THEN TRUE
    ELSE m.now - m.combos[combo.name] >= ComboCooldownOf(combo)

are_all_skills_ready(m, skills) ==
    \A i \in DOMAIN skills : is_skill_ready(m, skills[i])

get_skill_cooldown_remaining(m, skill) ==
    IF Lower(skill) \notin DOMAIN m.skills
    THEN 0
    ELSE Max(0, get_skill_cooldown(Lower(skill)) - (m.now - m.skills[Lower(skill)]))

get_combo_cooldown_remaining(m, combo) ==
    IF combo.name \notin DOMAIN m.combos
    THEN 0
    ELSE Max(0, ComboCooldownOf(combo) - (m.now - m.combos[combo.name]))

\* a variant of get_ready_combos that leaves the skills unchecked
get_ready_combos_ComboOnly(m, combos_on) ==
    IF ~combos_on
    THEN <<>>
    ELSE SelectSeq(get_enabled_combo_sets, LAMBDA c : is_combo_ready(m, c))

\* get_ready_combos: the ready combos in the order they are tried
get_ready_combos(m, combos_on) ==
    IF ~combos_on
    THEN <<>>
    ELSE SelectSeq(get_enabled_combo_sets,
                   LAMBDA c : is_combo_ready(m, c) /\ are_all_skills_ready(m, c.skills))

\* a variant of is_single_skill_ready without the global cooldown
is_single_skill_ready_NoGcd(m) == TRUE

is_single_skill_ready(m) ==
    m.now - m.single >= SINGLE_SKILL_GLOBAL_COOLDOWN

SkillPool ==
    IF SINGLE_SKILL_POOL # <<>> THEN SINGLE_SKILL_POOL
    ELSE <<"1", "2", "alt+1">>

available_single_skills(m) ==
    SelectSeq(SkillPool, LAMBDA k : is_skill_ready(m, k))

has_available_single_skill(m) ==
    is_single_skill_ready(m) /\ Len(available_single_skills(m)) > 0

has_ready_combo(m, combos_on) == Len(get_ready_combos(m, combos_on)) > 0

NamesOf(combos) == [i \in DOMAIN combos |-> combos[i].name]

----------------------------------------------------------------------------
(* SkillComboManager: execution.  A result is [m, ret, sent]: the manager  *)
(* after the call, the value returned and the keys sent, each with the     *)
(* time it was sent at.                                                    *)

\* whether the input call of execute_skill can raise: tap_key swallows every
\* error of both backends; the modifier helper is not part of the sources
InputMayRaise(skill) == parse_skill_keybind(skill)[1] # "none"

\* a variant of MarkSkillUsed that keeps the spelling of the keybind
MarkSkillUsed_AsSpelled(m, skill) ==
    [m EXCEPT !.skills = Put(m.skills, skill, m.now)]

\* self._skill_cooldowns[skill_lower] = time.time()
MarkSkillUsed(m, skill) ==
    [m EXCEPT !.skills = Put(m.skills, Lower(skill), m.now)]

\* self._combo_cooldowns[combo_name] = time.time()
MarkComboUsed(m, combo) ==
    [m EXCEPT !.combos = Put(m.combos, combo.name, m.now)]

\* time.sleep(seconds)
Sleep(m, seconds) == [m EXCEPT !.now = m.now + seconds]

\* execute_skill; raises says whether the input call raised
execute_skill(m, skill, raises) ==
    IF raises
    THEN [m |-> m, ret |-> FALSE, sent |-> <<>>]
    ELSE [m |-> MarkSkillUsed(m, skill), ret |-> TRUE,
          sent |-> <<[skill |-> skill, at |-> m.now]>>]

\* the loop of execute_combo from skill idx on; fail is the position whose
\* input call raises (0: none does), delays[i] the delay slept after skill i
RECURSIVE ComboLoop(_, _, _, _, _, _)
ComboLoop(m, combo, idx, fail, delays, sent) ==
    IF idx > Len(combo.skills)
    THEN [m |-> MarkComboUsed(m, combo), ret |-> TRUE, sent |-> sent]
    ELSE LET r == execute_skill(m, combo.skills[idx], idx = fail)
         IN  IF ~r.ret
             THEN [m |-> r.m, ret |-> FALSE, sent |-> sent \o r.sent]
             ELSE ComboLoop(IF idx < Len(combo.skills)
                            THEN Sleep(r.m, delays[idx]) ELSE r.m,
                            combo, idx + 1, fail, delays, sent \o r.sent)

\* a variant of execute_combo that marks the combo whatever the outcome
execute_combo_AlwaysMarks(m, combo, fail, delays) ==
    LET r == ComboLoop(m, combo, 1, fail, delays, <<>>)
    IN  [r EXCEPT !.m = MarkComboUsed(r.m, combo)]

execute_combo(m, combo, fail, delays) ==
    ComboLoop(m, combo, 1, fail, delays, <<>>)

\* the first enabled combo that is ready, in priority order (0 if none)
RECURSIVE FirstReady(_, _, _)
FirstReady(m, combos, i) ==
    IF i > Len(combos) THEN 0
    ELSE IF is_combo_ready(m, combos[i]) /\ are_all_skills_ready(m, combos[i].skills)
         THEN i
         ELSE FirstReady(m, combos, i + 1)

NoCombo == [name |-> "none", skills |-> <<>>, cooldown |-> 0,
            delay_between_skills |-> 0, enabled |-> FALSE]

\* try_execute_combos: a result with the combo started
try_execute_combos(m, combos_on, fail, delays) ==
    LET combos == get_enabled_combo_sets
        i == FirstReady(m, combos, 1)
    IN  IF ~combos_on \/ combos = <<>> \/ i = 0
        THEN [m |-> m, ret |-> FALSE, sent |-> <<>>, combo |-> NoCombo]
        ELSE [combo |-> combos[i]] @@ execute_combo(m, combos[i], fail, delays)

\* try_execute_random_combo; pick is the position random.choice takes
try_execute_random_combo(m, combos_on, pick, fail, delays) ==
    LET ready == get_ready_combos(m, combos_on)
    IN  IF ready = <<>>
        THEN [m |-> m, ret |-> FALSE, sent |-> <<>>, combo |-> NoCombo]
        ELSE [combo |-> ready[pick]] @@ execute_combo(m, ready[pick], fail, delays)

\* self._last_single_skill_use = time.time()
MarkSingleUsed(m) == [m EXCEPT !.single = m.now]

\* a variant of execute_single_skill that marks the pooled timestamp even
\* when the skill failed
execute_single_skill_AlwaysMarks(m, pick, raises) ==
    LET available == available_single_skills(m)
    IN  IF ~is_single_skill_ready(m) \/ available = <<>>
        THEN [m |-> m, ret |-> FALSE, sent |-> <<>>]
        ELSE LET r == execute_skill(m, available[pick], raises)
             IN  [r EXCEPT !.m = MarkSingleUsed(r.m)]

\* execute_single_skill; pick is the position random.choice takes
execute_single_skill(m, pick, raises) ==
    LET available == available_single_skills(m)
    IN  IF ~is_single_skill_ready(m) \/ available = <<>>
        THEN [m |-> m, ret |-> FALSE, sent |-> <<>>]
        ELSE LET r == execute_skill(m, available[pick], raises)
             IN  IF r.ret
                 THEN [r EXCEPT !.m = MarkSingleUsed(r.m)]
                 ELSE r

\* reset_cooldowns
reset_cooldowns(m) ==
    [m EXCEPT !.skills = EmptyMap, !.combos = EmptyMap, !.single = 0]

\* ATTACK_MODE_WEIGHTS, in percent, in the order of the dictionary
ATTACK_MODE_WEIGHTS ==
    <<[mode |-> "standard_attack", w |-> 50],
      [mode |-> "single_skill", w |-> 30],
      [mode |-> "combo_set", w |-> 20]>>

STEALTH_ATTACK_MODE_ENABLED == TRUE

REQUIRE_MOB_HEALTH_FOR_SKILLS == FALSE

AttackModes == {"standard_attack", "single_skill", "combo_set"}

\* choose_attack_mode: the modes random.choices can return
choose_attack_mode ==
    IF ~STEALTH_ATTACK_MODE_ENABLED
    THEN {"combo_set"}
    ELSE {ATTACK_MODE_WEIGHTS[i].mode : i \in
             {j \in DOMAIN ATTACK_MODE_WEIGHTS : ATTACK_MODE_WEIGHTS[j].w > 0}}

\* the attack-mode configuration as skill_combo_config.py gives it
AttackConfig == [weights |-> ATTACK_MODE_WEIGHTS,
                 require_health |-> REQUIRE_MOB_HEALTH_FOR_SKILLS]

\* choose_actionable_mode: the modes it can return under the configuration
\* cfg = [weights, require_health] (the two module attributes it reads)
choose_actionable_mode(m, combos_on, cfg, has_health) ==
    IF cfg.require_health /\ ~has_health
    THEN {"standard_attack"}
    ELSE LET single_ready == has_available_single_skill(m)
             combo_ready == has_ready_combo(m, combos_on)
             candidates == SelectSeq(cfg.weights, LAMBDA c :
                               /\ ~(c.mode = "single_skill" /\ ~single_ready)
                               /\ ~(c.mode = "combo_set" /\ ~combo_ready))
             total == SumSeq([i \in DOMAIN candidates |-> Max(0, candidates[i].w)])
         IN  IF candidates # <<>>
             THEN IF total <= 0
                  THEN AttackModes
                  ELSE {candidates[i].mode : i \in
                           {j \in DOMAIN candidates : candidates[j].w > 0}}
             ELSE IF single_ready THEN {"single_skill"}
                  ELSE IF combo_ready THEN {"combo_set"}
                  ELSE {"standard_attack"}

----------------------------------------------------------------------------
(* choose_actionable_mode as a function of the configuration and of the    *)
(* manager's cooldown state.  Weights are in percent; a weight of zero and *)
(* a negative weight (clamped by max(0.0, w)) are configurations too.      *)

\* the weights one mode can be configured with
ModeWeights == {-10, 0, 50}

\* ATTACK_MODE_WEIGHTS as the user can configure it, in dictionary order
WeightConfigs ==
    {<<[mode |-> "standard_attack", w |-> ws],
       [mode |-> "single_skill", w |-> wk],
       [mode |-> "combo_set", w |-> wc]>> : ws, wk \in ModeWeights, wc \in {0, 50}}

\* the time of the call
ModeNow == StartTime + 2

\* cooldown maps: a key is absent (never used), used long ago or used just now
StampMaps(keys) ==
    UNION {[ks -> {StartTime - 1, ModeNow}] : ks \in SUBSET keys}

ModeManagers ==
    [now : {ModeNow},
     skills : StampMaps({"1", "alt+1"}),
     combos : StampMaps({"Basic"}),
     single : {0, ModeNow}]

ModeParked ==
    /\ a_manager = [now |-> ModeNow, skills |-> EmptyMap, combos |-> EmptyMap,
                    single |-> 0]
    /\ a_combos_on = TRUE
    /\ a_config = AttackConfig
    /\ a_has_health = FALSE
    /\ a_mode = "none"
    /\ a_done = FALSE

ModeInit ==
    /\ a_manager \in ModeManagers
    /\ a_combos_on \in BOOLEAN
    /\ a_config \in [weights : WeightConfigs, require_health : BOOLEAN]
    /\ a_has_health \in BOOLEAN
    /\ a_mode = "none"
    /\ a_done = FALSE

\* one call of choose_actionable_mode; mode is what random.choices draws
ChooseMode(mode) ==
    /\ ~a_done
    /\ mode \in choose_actionable_mode(a_manager, a_combos_on, a_config, a_has_health)
    /\ a_mode' = mode
    /\ a_done' = TRUE
    /\ UNCHANGED <<a_manager, a_combos_on, a_config, a_has_health, modeRest>>

ModeNext == \E mode \in AttackModes : ChooseMode(mode)

----------------------------------------------------------------------------
(* The manager as a state machine: one action per public method            *)

\* the executing calls of one run of the model
MaxCalls == 2

\* the history of keys sent: keybind -> time of the last send
RECURSIVE NoteSent(_, _)
NoteSent(used, sent) ==
    IF sent = <<>> THEN used
    ELSE NoteSent(Put(used, Lower(Head(sent).skill), Head(sent).at), Tail(sent))

\* the inputs a combo execution admits: the positions that can raise (only a
\* modifier skill can; 0 is no raise) and the delays get_randomized_delay
\* returns, one after each skill but the last
FaultsOf(combo) ==
    {0} \cup {i \in DOMAIN combo.skills : InputMayRaise(combo.skills[i])}

DelaysOf(combo) ==
    [1..Max(0, Len(combo.skills) - 1) -> get_randomized_delay(combo.delay_between_skills)]

\* the history of combos: a combo whose every skill was sent ran to the end
NoteCombo(used, combo, sent, now) ==
    IF combo.name # "none" /\ Len(sent) = Len(combo.skills)
    THEN Put(used, combo.name, now)
    ELSE used

\* the entries of the single-skill history: a successful use, or a
\* reset_cooldowns() that followed one
SingleUse(at) == [at |-> at, reset |-> FALSE]
ResetMark(at) == [at |-> at, reset |-> TRUE]

Call(op, arg, ret, sent, combo) ==
    [op |-> op, arg |-> arg, ret |-> ret, sent |-> sent, combo |-> combo]

\* the manager's variables after a call with result r
MgrCommit(r) ==
    /\ calls < MaxCalls
    /\ r.m.now <= MaxTime
    /\ mnow' = r.m.now
    /\ skill_cooldowns' = r.m.skills
    /\ combo_cooldowns' = r.m.combos
    /\ last_single_skill_use' = r.m.single
    /\ skill_used' = NoteSent(skill_used, r.sent)
    /\ calls' = calls + 1
    /\ UNCHANGED <<SKILL_COMBO_ENABLED, mgrRest>>

MgrInit ==
    /\ mnow = StartTime
    /\ skill_cooldowns = EmptyMap
    /\ combo_cooldowns = EmptyMap
    /\ last_single_skill_use = 0
    /\ SKILL_COMBO_ENABLED \in BOOLEAN
    /\ mlast = Call("init", "", TRUE, <<>>, "none")
    /\ skill_used = EmptyMap
    /\ combo_used = EmptyMap
    /\ calls = 0
    /\ single_uses = <<>>

\* the manager when another part of the program is examined
MgrParked ==
    /\ MgrInit
    /\ SKILL_COMBO_ENABLED

\* the clock advances between calls
MTick ==
    /\ mnow < MaxTime
    /\ mnow' = mnow + 1
    /\ mlast' = Call("tick", "", TRUE, <<>>, "none")
    /\ UNCHANGED <<skill_cooldowns, combo_cooldowns, last_single_skill_use,
                   SKILL_COMBO_ENABLED, skill_used, combo_used, calls,
                   single_uses, mgrRest>>

ExecuteSkill(k, raises) ==
    /\ raises => InputMayRaise(k)
    /\ LET r == execute_skill(Manager, k, raises)
       IN  /\ MgrCommit(r)
           /\ mlast' = Call("execute_skill", k, r.ret, r.sent, "none")
    /\ UNCHANGED <<combo_used, single_uses>>

ExecuteCombo(c, fail, delays) ==
    /\ LET r == execute_combo(Manager, COMBO_SETS[c], fail, delays)
       IN  /\ MgrCommit(r)
           /\ mlast' = Call("execute_combo", "", r.ret, r.sent, COMBO_SETS[c].name)
           /\ combo_used' = NoteCombo(combo_used, COMBO_SETS[c], r.sent, r.m.now)
           /\ UNCHANGED single_uses

TryExecuteCombos(fail, delays) ==
    LET r == try_execute_combos(Manager, SKILL_COMBO_ENABLED, fail, delays)
    IN  /\ MgrCommit(r)
        /\ mlast' = Call("try_execute_combos", "", r.ret, r.sent, r.combo.name)
        /\ combo_used' = NoteCombo(combo_used, r.combo, r.sent, r.m.now)
        /\ UNCHANGED single_uses

TryExecuteRandomCombo(pick, fail, delays) ==
    LET r == try_execute_random_combo(Manager, SKILL_COMBO_ENABLED, pick, fail, delays)
    IN  /\ MgrCommit(r)
        /\ mlast' = Call("try_execute_random_combo", "", r.ret, r.sent, r.combo.name)
        /\ combo_used' = NoteCombo(combo_used, r.combo, r.sent, r.m.now)
        /\ UNCHANGED single_uses

ExecuteSingleSkill(pick, raises) ==
    LET available == available_single_skills(Manager)
        r == execute_single_skill(Manager, pick, raises)
    IN  /\ raises => /\ is_single_skill_ready(Manager)
                      /\ available # <<>>
                      /\ InputMayRaise(available[pick])
        /\ MgrCommit(r)
        /\ mlast' = Call("execute_single_skill", "", r.ret, r.sent, "none")
        /\ single_uses' = IF r.sent # <<>>
                          THEN Append(single_uses, SingleUse(r.sent[1].at))
                          ELSE single_uses
        /\ UNCHANGED combo_used

ResetCooldowns ==
    /\ mnow' = mnow
    /\ skill_cooldowns' = reset_cooldowns(Manager).skills
    /\ combo_cooldowns' = reset_cooldowns(Manager).combos
    /\ last_single_skill_use' = reset_cooldowns(Manager).single
    /\ mlast' = Call("reset_cooldowns", "", TRUE, <<>>, "none")
    /\ skill_used' = EmptyMap
    /\ combo_used' = EmptyMap
    /\ single_uses' = IF single_uses = <<>> \/ single_uses[Len(single_uses)].reset
                      THEN single_uses
                      ELSE Append(single_uses, ResetMark(mnow))
    /\ UNCHANGED <<SKILL_COMBO_ENABLED, calls, mgrRest>>

\* a query: its value is returned, the manager is left as it was
Query(value) ==
    /\ value \in BOOLEAN
    /\ mlast' = Call("query", "", TRUE, <<>>, "none")
    /\ UNCHANGED <<mnow, skill_cooldowns, combo_cooldowns, last_single_skill_use,
                   SKILL_COMBO_ENABLED, skill_used, combo_used, calls,
                   single_uses, mgrRest>>

IsSkillReady(k) == Query(is_skill_ready(Manager, k))

IsComboReady(c) == Query(is_combo_ready(Manager, COMBO_SETS[c]))

GetSkillCooldownRemaining(k) == Query(get_skill_cooldown_remaining(Manager, k) = 0)

GetComboCooldownRemaining(c) ==
    Query(get_combo_cooldown_remaining(Manager, COMBO_SETS[c]) = 0)

GetReadyCombos == Query(get_ready_combos(Manager, SKILL_COMBO_ENABLED) = <<>>)

\* get_status_summary reads the same queries for every enabled combo
GetStatusSummary ==
    Query(\A i \in DOMAIN get_enabled_combo_sets :
             /\ get_combo_cooldown_remaining(Manager, get_enabled_combo_sets[i]) = 0
             /\ are_all_skills_ready(Manager, get_enabled_combo_sets[i].skills))

ChooseAttackMode(mode) ==
    /\ mode \in choose_attack_mode
    /\ Query(mode = "standard_attack")

ChooseActionableMode(has_health, mode) ==
    /\ mode \in choose_actionable_mode(Manager, SKILL_COMBO_ENABLED, AttackConfig,
                                       has_health)
    /\ Query(mode = "standard_attack")

\* the combo try_execute_combos starts (NoCombo if none)
FirstReadyCombo ==
    LET i == FirstReady(Manager, get_enabled_combo_sets, 1)
    IN  IF ~SKILL_COMBO_ENABLED \/ i = 0 THEN NoCombo ELSE get_enabled_combo_sets[i]

\* the combo try_execute_random_combo starts when random.choice takes pick
RandomReadyCombo(pick) ==
    LET ready == get_ready_combos(Manager, SKILL_COMBO_ENABLED)
    IN  IF ready = <<>> THEN NoCombo ELSE ready[pick]

\* the positions random.choice can take in a list (1 when it is never called)
Picks(list) == IF list = <<>> THEN {1} ELSE DOMAIN list

MgrNext ==
    \/ MTick
    \/ \E k \in Keybinds, raises \in BOOLEAN : ExecuteSkill(k, raises)
    \/ \E c \in DOMAIN COMBO_SETS :
          \E fail \in FaultsOf(COMBO_SETS[c]), delays \in DelaysOf(COMBO_SETS[c]) :
             ExecuteCombo(c, fail, delays)
    \/ \E fail \in FaultsOf(FirstReadyCombo), delays \in DelaysOf(FirstReadyCombo) :
          TryExecuteCombos(fail, delays)
    \/ \E pick \in Picks(get_ready_combos(Manager, SKILL_COMBO_ENABLED)) :
          \E fail \in FaultsOf(RandomReadyCombo(pick)),
             delays \in DelaysOf(RandomReadyCombo(pick)) :
             TryExecuteRandomCombo(pick, fail, delays)
    \/ \E pick \in Picks(available_single_skills(Manager)), raises \in BOOLEAN :
          ExecuteSingleSkill(pick, raises)
    \/ ResetCooldowns
    \/ \E k \in Keybinds : IsSkillReady(k)
    \/ \E c \in DOMAIN COMBO_SETS : IsComboReady(c)
    \/ \E k \in Keybinds : GetSkillCooldownRemaining(k)
    \/ \E c \in DOMAIN COMBO_SETS : GetComboCooldownRemaining(c)
    \/ GetReadyCombos
    \/ GetStatusSummary
    \/ \E mode \in AttackModes : ChooseAttackMode(mode)
    \/ \E has_health \in BOOLEAN, mode \in AttackModes :
          ChooseActionableMode(has_health, mode)

----------------------------------------------------------------------------
(* action_planner.py: detections and geometry.  A detection is a record    *)
(* [class, x, y, width, height, confidence] in window pixels; confidence   *)
(* is in percent, NoConfidence when the key is absent.  Coordinates and    *)
(* sizes are non-negative whole pixels.                                    *)

NoConfidence == -1

\* the planner's conf_thresh (0.25), in percent
conf_thresh == 25

\* the overlap above which two boxes belong together (0.05), in percent
IouThreshold == 5

Det(class, x, y, width, height, confidence) ==
    [class |-> class, x |-> x, y |-> y, width |-> width, height |-> height,
     confidence |-> confidence]

\* None, where a detection is expected
NoneDet == Det("None", 0, 0, 0, 0, NoConfidence)

\* str(d.get("class", "")).lower()
ClassLower(c) ==
    CASE c = "MOB_NEAR" -> "mob_near"
      [] c = "Mob_Target" -> "mob_target"
      [] OTHER -> c

\* float(d.get("confidence") or 0), in percent
ConfidenceOf(d) == IF d.confidence = NoConfidence THEN 0 ELSE d.confidence

\* _center_of: int(x + w / 2.0), int(y + h / 2.0)
center_of(d) == <<(2 * d.x + d.width) \div 2, (2 * d.y + d.height) \div 2>>

\* _iou(a, b) > IouThreshold percent, in whole numbers
iou_over(a, b) ==
    LET ax2 == a.x + a.width
        ay2 == a.y + a.height
        bx2 == b.x + b.width
        by2 == b.y + b.height
        ix1 == Max(a.x, b.x)
        iy1 == Max(a.y, b.y)
        ix2 == Min(ax2, bx2)
        iy2 == Min(ay2, by2)
        inter == (ix2 - ix1) * (iy2 - iy1)
        area_a == Max(0, ax2 - a.x) * Max(0, ay2 - a.y)
        area_b == Max(0, bx2 - b.x) * Max(0, by2 - b.y)
        union == area_a + area_b - inter
    IN  IF ix2 <= ix1 \/ iy2 <= iy1 THEN FALSE
        ELSE IF union > 0 THEN 100 * inter > IouThreshold * union
        ELSE FALSE

MobPriority == <<"mob_oncursor", "mob_near", "mob_away">>

\* priority.index(p) of a detection's class (0 if it is no mob class)
PriorityOf(d) ==
    IF \E i \in DOMAIN MobPriority : MobPriority[i] = ClassLower(d.class)
    THEN CHOOSE i \in DOMAIN MobPriority : MobPriority[i] = ClassLower(d.class)
    ELSE 0

\* get_window_rect(hwnd): (left, top, width, height), or NoRect when the
\* window cannot be read
NoRect == <<0, 0, 0, 0, "None">>

\* the player's position doubled: (screen_w / 2.0, screen_h / 2.0), or (0, 0)
\* without a window rectangle
PlayerTwice(rect) == IF rect = NoRect THEN <<0, 0>> ELSE <<rect[3], rect[4]>>

\* has_target_marker of _find_target_mob
HasTargetMarker(d, detections) ==
    \E j \in DOMAIN detections :
        /\ ClassLower(detections[j].class) = "mob_target"
        /\ iou_over(d, detections[j])

\* four times the square of the distance of _find_target_mob
DistanceKey(d, rect) ==
    LET c == center_of(d)
        q == PlayerTwice(rect)
    IN  (2 * c[1] - q[1]) * (2 * c[1] - q[1]) + (2 * c[2] - q[2]) * (2 * c[2] - q[2])

\* the detections _find_target_mob collects as candidates, by position
CandidateIndexes(detections) ==
    {i \in DOMAIN detections :
        /\ PriorityOf(detections[i]) # 0
        /\ ConfidenceOf(detections[i]) >= conf_thresh}

\* a variant of SortKey without the target marker
SortKey_NoMarker(d, detections, rect) ==
    <<PriorityOf(d), 0, DistanceKey(d, rect)>>

\* the sort key (priority, not has_marker, distance) of one candidate, and
\* the order of two keys; the sort is stable and the candidates are appended
\* by priority and then by position
SortKey(d, detections, rect) ==
    <<PriorityOf(d), IF HasTargetMarker(d, detections) THEN 0 ELSE 1,
      DistanceKey(d, rect)>>

KeyLess(a, b) ==
    \/ a[1] < b[1]
    \/ a[1] = b[1] /\ a[2] < b[2]
    \/ a[1] = b[1] /\ a[2] = b[2] /\ a[3] < b[3]

\* _find_target_mob; rect is what get_window_rect returns
find_target_mob(detections, rect) ==
    LET cand == CandidateIndexes(detections)
        key(i) == SortKey(detections[i], detections, rect)
        firsts == {i \in cand : \A j \in cand :
                      /\ ~KeyLess(key(j), key(i))
                      /\ key(j) = key(i) => i <= j}
    IN  IF cand = {} THEN NoneDet
        ELSE detections[CHOOSE i \in firsts : TRUE]

\* _find_health_for
find_health_for(target, detections) ==
    LET hits == {i \in DOMAIN detections :
                    /\ ClassLower(detections[i].class) = "mob_combat_health"
                    /\ iou_over(target, detections[i])}
    IN  IF hits = {} THEN NoneDet
        ELSE detections[CHOOSE i \in hits : \A j \in hits : i <= j]

\* the class names _find_map_dots accepts: those containing "map", "dot",
\* "red" or "enemy"
MapDotClasses == {"map_dot", "map_enemy", "red_dot"}

\* _find_map_dots
find_map_dots(detections) ==
    SelectSeq(detections, LAMBDA d : ClassLower(d.class) \in MapDotClasses)

\* _find_north_map_dots
find_north_map_dots(dots, window_w, window_h) ==
    LET map_dots == SelectSeq(dots, LAMBDA d :
                        2 * d.x > window_w /\ 2 * d.y < window_h)
        sum_y == SumSeq([i \in DOMAIN map_dots |-> map_dots[i].y])
        north_dots == SelectSeq(map_dots, LAMBDA d :
                          d.y * Len(map_dots) < sum_y)
    IN  IF dots = <<>> THEN <<>>
        ELSE IF map_dots = <<>> THEN dots
        ELSE IF north_dots # <<>> THEN north_dots ELSE map_dots

----------------------------------------------------------------------------
(* _find_target_mob as a function of the detections of one frame           *)

\* the detections of a frame
MaxDets == 3

\* the window the detections are taken from: (left, top, width, height)
TargetWindow == <<10, 20, 200, 100>>

\* boxes: at the centre of the window, in its corner, over the corner box,
\* and at the centre with an odd width
BoxCentre == <<90, 40, 20, 20>>
BoxCorner == <<10, 10, 20, 20>>
BoxMarker == <<12, 12, 20, 20>>
BoxOdd == <<90, 40, 21, 20>>

DetAt(class, box, confidence) ==
    Det(class, box[1], box[2], box[3], box[4], confidence)

\* the detections a frame is made of
TargetUniverse ==
    {DetAt(c, b, k) : c \in {"mob_oncursor"}, b \in {BoxCentre, BoxCorner}, k \in {24, 30}}
    \cup {DetAt(c, b, k) : c \in {"mob_near", "mob_away"},
                           b \in {BoxCentre, BoxCorner}, k \in {24, 90}}
    \cup {DetAt("mob_near", BoxCorner, 25), DetAt("mob_near", BoxOdd, NoConfidence),
          DetAt("MOB_NEAR", BoxOdd, 90), DetAt("mob_target", BoxMarker, 90)}

\* the lists of at most n elements of a set
ListsUpTo(S, n) == UNION {[1..k -> S] : k \in 0..n}

TgtParked ==
    /\ t_detections = <<>>
    /\ t_rect = NoRect
    /\ t_target = NoneDet
    /\ t_done = FALSE

TgtInit ==
    /\ t_detections \in ListsUpTo(TargetUniverse, MaxDets)
    /\ t_rect \in {TargetWindow, NoRect}
    /\ t_target = NoneDet
    /\ t_done = FALSE

\* one call of _find_target_mob
FindTargetMob ==
    /\ ~t_done
    /\ t_target' = find_target_mob(t_detections, t_rect)
    /\ t_done' = TRUE
    /\ UNCHANGED <<t_detections, t_rect, tgtRest>>

\* the window is lost or found again before the call
WindowChanges ==
    /\ ~t_done
    /\ t_rect' \in {TargetWindow, NoRect} \ {t_rect}
    /\ UNCHANGED <<t_detections, t_target, t_done, tgtRest>>

TgtNext == FindTargetMob \/ WindowChanges

----------------------------------------------------------------------------
(* stealth_config.py: the configuration the planner reads.  The timing     *)
(* constants are tuning values; the model runs on a reduced configuration  *)
(* that keeps their order (the cooldown shorter than the idle period,      *)
(* the idle period shorter than the idle check interval), in ticks of the  *)
(* planner's clock.                                                        *)

WARMUP_ACTIONS == 2
WARMUP_EXTRA_DELAY_MIN == 1
WARMUP_EXTRA_DELAY_MAX == 2
ACTION_COOLDOWN_MIN == 1
ACTION_COOLDOWN_MAX == 2
IDLE_CHECK_INTERVAL == 5
IDLE_DURATION_MIN == 2
IDLE_DURATION_MAX == 3
MOVEMENT_PATTERN_MIN == 1
MOVEMENT_PATTERN_MAX == 3
MOUSE_JITTER_X == 15
MOUSE_JITTER_Y == 15

\* MOB_CLICK_Y_MIN and MOB_CLICK_Y_MAX, in percent
MOB_CLICK_Y_MIN == 70
MOB_CLICK_Y_MAX == 90

MOVEMENT_PATTERNS ==
    <<"forward", "forward_zigzag", "circle_left", "circle_right",
      "backup_turn", "strafe_left", "strafe_right">>

\* random.uniform(lo, hi) and random.randint(lo, hi): the values the model
\* samples, the two ends of the range
Samples(lo, hi) == {lo, hi}

get_action_delay == Samples(ACTION_COOLDOWN_MIN, ACTION_COOLDOWN_MAX)

get_warmup_delay == Samples(WARMUP_EXTRA_DELAY_MIN, WARMUP_EXTRA_DELAY_MAX)

get_idle_duration == Samples(IDLE_DURATION_MIN, IDLE_DURATION_MAX)

\* should_idle and should_change_movement_pattern: either outcome
should_idle == BOOLEAN

should_change_movement_pattern == BOOLEAN

get_movement_pattern == {MOVEMENT_PATTERNS[i] : i \in DOMAIN MOVEMENT_PATTERNS}

get_movement_pattern_duration == Samples(MOVEMENT_PATTERN_MIN, MOVEMENT_PATTERN_MAX)

\* get_mouse_jitter: both offsets at the same end of their ranges
get_mouse_jitter ==
    {<<-MOUSE_JITTER_X, -MOUSE_JITTER_Y>>, <<MOUSE_JITTER_X, MOUSE_JITTER_Y>>}

\* int(num / den) of Python: towards zero
IntTrunc(num, den) ==
    IF num >= 0 THEN num \div den ELSE -((-num) \div den)

Abs(x) == IF x >= 0 THEN x ELSE -x

----------------------------------------------------------------------------
(* ActionPlanner.  Every method takes the planner p (self); the clock is   *)
(* read once, at the start of plan_and_execute.  A cycle returns [p, out]: *)
(* the planner after it and what the cycle did: the branch it took,        *)
(* whether it rolled for idling, the calls of focus_window, the position   *)
(* double-clicked (<<>> if none), the keys tapped and the detections it    *)
(* looked at (none before the gates are passed).  focus_window,            *)
(* double_click_at and tap_key catch their own errors and return.          *)

Planner ==
    [enabled |-> enabled, last_action |-> last_action,
     target_locked |-> target_locked, action_count |-> action_count,
     last_idle_check |-> last_idle_check, in_idle_state |-> in_idle_state,
     idle_until |-> idle_until,
     current_movement_pattern |-> current_movement_pattern,
     movement_pattern_start |-> movement_pattern_start,
     movement_pattern_duration |-> movement_pattern_duration]

NoClick == <<>>

Out(branch, rolled, focus, click, keys) ==
    [branch |-> branch, rolled |-> rolled, focus |-> focus, click |-> click,
     keys |-> keys, seen |-> <<>>]

\* set_enabled
set_enabled(p, value) == [p EXCEPT !.enabled = value]

\* the idle check that is due stamps its time
idle_roll_Forgets(p, now) == p

idle_roll(p, now) == [p EXCEPT !.last_idle_check = now]

\* the cooldown of a cycle: the action delay drawn, and the warm-up delay
\* drawn while fewer than WARMUP_ACTIONS actions have been taken
cooldown_NoWarmup(p, g) == g.delay

cooldown(p, g) ==
    g.delay + (IF p.action_count < WARMUP_ACTIONS THEN g.warmup ELSE 0)

\* the gates of plan_and_execute past the enabled flag: idle period, idle
\* roll, cooldown.  g holds the values drawn: should_idle,
\* get_idle_duration, get_action_delay, get_warmup_delay
gates(p, now, g) ==
    IF p.in_idle_state /\ now < p.idle_until
    THEN [p |-> p, branch |-> "idle", rolled |-> FALSE]
    ELSE LET p1 == [p EXCEPT !.in_idle_state = FALSE]
             rolls == now - p1.last_idle_check > IDLE_CHECK_INTERVAL
             p2 == IF rolls THEN idle_roll(p1, now) ELSE p1
         IN  IF rolls /\ g.idle
             THEN [p |-> [p2 EXCEPT !.in_idle_state = TRUE,
                                    !.idle_until = now + g.idle_duration],
                   branch |-> "idle_enter", rolled |-> TRUE]
             ELSE IF now - p2.last_action < cooldown(p2, g)
             THEN [p |-> p2, branch |-> "gated", rolled |-> rolls]
             ELSE [p |-> [p2 EXCEPT !.last_action = now,
                                    !.action_count = p2.action_count + 1],
                   branch |-> "pass", rolled |-> rolls]

\* the attack on a target found: focus twice, double-click in the lower part
\* of its box, lock it if it has a health bar
attack_target(p, target, detections, window_rect, a) ==
    LET screen_x == IntTrunc(2 * (window_rect[1] + target.x + a.jitter[1])
                               + target.width, 2)
        screen_y == IntTrunc(100 * (window_rect[2] + target.y + a.jitter[2])
                               + target.height * a.ypct, 100)
        health == find_health_for(target, detections)
    IN  [p |-> IF health # NoneDet THEN [p EXCEPT !.target_locked = target] ELSE p,
         out |-> Out("attack", FALSE, 2, <<screen_x, screen_y>>, {})]

\* health_remaining of plan_and_execute
health_remaining(locked, detections) ==
    \E i \in DOMAIN detections :
        /\ ClassLower(detections[i].class) = "mob_combat_health"
        /\ iou_over(locked, detections[i])

continue_locked_Unlocks(p, window_rect) ==
    LET c == center_of(p.target_locked)
    IN  [p |-> [p EXCEPT !.target_locked = NoneDet],
         out |-> Out("locked", FALSE, 1,
                     <<window_rect[1] + c[1], window_rect[2] + c[2]>>, {})]

\* the attack on the locked target, at the centre of its box
continue_locked(p, window_rect) ==
    LET c == center_of(p.target_locked)
    IN  [p |-> p,
         out |-> Out("locked", FALSE, 1,
                     <<window_rect[1] + c[1], window_rect[2] + c[2]>>, {})]

\* the keys _execute_movement_macro taps; turn holds the keys its
\* random.random() calls choose between a and d
execute_movement_macro(pattern, turn) ==
    CASE pattern = "forward" -> {"w"}
      [] pattern = "forward_zigzag" -> {"w"} \cup turn
      [] pattern = "circle_left" -> {"w", "a"}
      [] pattern = "circle_right" -> {"w", "d"}
      [] pattern = "backup_turn" -> {"s"} \cup turn
      [] pattern = "strafe_left" -> {"a"}
      [] pattern = "strafe_right" -> {"d"}
      [] OTHER -> {}

\* no map dots: the movement macro
explore(p, now, a) ==
    LET renew == a.change
                 \/ now - p.movement_pattern_start > p.movement_pattern_duration
        p1 == IF renew
              THEN [p EXCEPT !.current_movement_pattern = a.pattern,
                             !.movement_pattern_duration = a.pattern_duration,
                             !.movement_pattern_start = now]
              ELSE p
    IN  [p |-> p1,
         out |-> Out("macro", FALSE, 1, NoClick,
                     execute_movement_macro(p1.current_movement_pattern, a.turn))]

\* the dot steered to: the first of the north dots nearest the centre
BestDot(dots, w, h) ==
    LET north == find_north_map_dots(dots, w, h)
        north_dots == IF north = <<>> THEN dots ELSE north
        dist(i) == (2 * north_dots[i].x + north_dots[i].width - w)
                     * (2 * north_dots[i].x + north_dots[i].width - w)
                   + (2 * north_dots[i].y + north_dots[i].height - h)
                     * (2 * north_dots[i].y + north_dots[i].height - h)
        i == CHOOSE k \in DOMAIN north_dots :
                 /\ \A j \in DOMAIN north_dots : dist(k) <= dist(j)
                 /\ \A j \in 1..(k - 1) : dist(j) > dist(k)
    IN  north_dots[i]

\* a variant of the steering with no dead zone around the centre line
steer_NoDeadZone(p, dots, window_rect) ==
    LET w == window_rect[3]
        h == window_rect[4]
        c == center_of(BestDot(dots, w, h))
        key == IF 100 * Abs(2 * c[1] - w) > 15 * Max(2, w)
               THEN IF 2 * c[1] - w > 0 THEN {"d"} ELSE {"a"}
               ELSE IF 2 * c[2] - h < 0 THEN {"w"}
               ELSE IF 2 * c[2] - h > 0 THEN {"s"}
               ELSE {}
    IN  [p |-> p,
         out |-> Out("steer", FALSE, IF key = {} THEN 1 ELSE 2, NoClick, key)]

\* map-dot steering: the key tapped towards the best dot (a turn of 70
\* degrees, past 0.30, and a small turn, past 0.15, tap the same key and
\* differ in the time slept)
steer(p, dots, window_rect) ==
    LET w == window_rect[3]
        h == window_rect[4]
        c == center_of(BestDot(dots, w, h))
        ndx_num == 2 * c[1] - w
        ndx_den == Max(2, w)
        ndy_num == 2 * c[2] - h
        ndy_den == Max(2, h)
        key == IF 100 * Abs(ndx_num) > 15 * ndx_den
               THEN IF ndx_num > 0 THEN {"d"} ELSE {"a"}
               ELSE IF 100 * ndy_num < -12 * ndy_den THEN {"w"}
               ELSE IF 100 * ndy_num > 12 * ndy_den THEN {"s"}
               ELSE {}
    IN  [p |-> p,
         out |-> Out("steer", FALSE, IF key = {} THEN 1 ELSE 2, NoClick, key)]

\* plan_and_execute past the gates; rect is what get_window_rect returns to
\* _find_target_mob, a holds the values drawn
act(p, now, detections, window_rect, rect, a) ==
    LET target == find_target_mob(detections, rect)
        dots == find_map_dots(detections)
    IN  IF target # NoneDet
        THEN attack_target(p, target, detections, window_rect, a)
        ELSE IF p.target_locked # NoneDet
                /\ health_remaining(p.target_locked, detections)
        THEN continue_locked(p, window_rect)
        ELSE LET p1 == [p EXCEPT !.target_locked = NoneDet]
             IN  IF dots = <<>> THEN explore(p1, now, a)
                 ELSE steer(p1, dots, window_rect)

\* plan_and_execute of an enabled planner
enabled_cycle(p, now, detections, window_rect, rect, g, a) ==
    LET r == gates(p, now, g)
    IN  IF r.branch # "pass"
        THEN [p |-> r.p, out |-> Out(r.branch, r.rolled, 0, NoClick, {})]
        ELSE LET q == act(r.p, now, detections, window_rect, rect, a)
             IN  [p |-> q.p,
                  out |-> [q.out EXCEPT !.rolled = r.rolled, !.seen = detections]]

plan_and_execute_Regardless(p, now, detections, window_rect, rect, g, a) ==
    enabled_cycle(p, now, detections, window_rect, rect, g, a)

\* plan_and_execute
plan_and_execute(p, now, detections, window_rect, rect, g, a) ==
    IF ~p.enabled
    THEN [p |-> p, out |-> Out("disabled", FALSE, 0, NoClick, {})]
    ELSE enabled_cycle(p, now, detections, window_rect, rect, g, a)

----------------------------------------------------------------------------
(* The planner as a state machine: the detection loop calls                *)
(* plan_and_execute with the detections of a frame; the clock advances     *)
(* between the calls (the time a cycle sleeps is part of that advance).    *)

\* the calls made on the planner
MaxCycles == 4

\* time.time() at construction: the real clock is about 1.7e9, so that the
\* first cycle is past every cooldown counted from 0.0
PlanStart == ACTION_COOLDOWN_MAX + WARMUP_EXTRA_DELAY_MAX + 1

\* the time between two cycles: a tick, or a pause longer than the idle
\* check interval
ClockSteps == {1, IDLE_CHECK_INTERVAL + 1}

\* the frames: a mob with and without its health bar, another mob, a health
\* bar alone, a map dot to the right of the centre, and nothing
MobA == DetAt("mob_near", BoxCentre, 90)
MobB == DetAt("mob_away", BoxCorner, 90)
HealthA == DetAt("mob_combat_health", <<90, 36, 20, 8>>, 90)
HealthB == DetAt("mob_combat_health", <<10, 6, 20, 8>>, 90)
DotRight == DetAt("map_dot", <<180, 10, 4, 4>>, 90)

PlanFrames ==
    {<<>>, <<MobA, HealthA>>, <<MobA>>, <<MobB, HealthB>>, <<HealthA>>,
     <<DotRight>>}

\* what get_window_rect returns to _find_target_mob: it decides between the
\* mobs of a frame, and no frame of PlanFrames holds two
PlanRects == {TargetWindow}

\* the draws of the gates that matter in the state: nothing is drawn when
\* the planner is disabled or idling, an idle duration only after a roll
\* that succeeded, a warm-up delay only during the warm-up
GateDraw(idle, idle_duration, delay, warmup) ==
    [idle |-> idle, idle_duration |-> idle_duration, delay |-> delay,
     warmup |-> warmup]

GateDraws(p, now) ==
    IF ~p.enabled \/ (p.in_idle_state /\ now < p.idle_until)
    THEN {GateDraw(FALSE, IDLE_DURATION_MIN, ACTION_COOLDOWN_MIN, WARMUP_EXTRA_DELAY_MIN)}
    ELSE {GateDraw(TRUE, d, ACTION_COOLDOWN_MIN, WARMUP_EXTRA_DELAY_MIN) :
             d \in IF now - p.last_idle_check > IDLE_CHECK_INTERVAL
                   THEN get_idle_duration ELSE {}}
         \cup {GateDraw(FALSE, IDLE_DURATION_MIN, d, e) :
                  d \in get_action_delay,
                  e \in IF p.action_count < WARMUP_ACTIONS
                        THEN get_warmup_delay ELSE {WARMUP_EXTRA_DELAY_MIN}}

ActDraw(ypct, jitter, change, pattern, pattern_duration, turn) ==
    [ypct |-> ypct, jitter |-> jitter, change |-> change, pattern |-> pattern,
     pattern_duration |-> pattern_duration, turn |-> turn]

\* the draws past the gates that matter for the frame: the click position of
\* an attack, the pattern of a movement macro
ActDraws(p, now, detections, rect, g) ==
    LET r == gates(p, now, g)
        quiet == ActDraw(MOB_CLICK_Y_MIN, <<0, 0>>, FALSE, "forward",
                         MOVEMENT_PATTERN_MIN, {})
        attack == {[quiet EXCEPT !.ypct = MOB_CLICK_Y_MIN, !.jitter = j] :
                      j \in {<<-MOUSE_JITTER_X, -MOUSE_JITTER_Y>>}}
                  \cup {[quiet EXCEPT !.ypct = MOB_CLICK_Y_MAX, !.jitter = j] :
                      j \in {<<MOUSE_JITTER_X, MOUSE_JITTER_Y>>}}
        turns(n) == CASE n = "forward_zigzag" -> {{"a"}, {"d"}, {"a", "d"}}
                      [] n = "backup_turn" -> {{"a"}, {"d"}}
                      [] OTHER -> {{}}
        expired == now - r.p.movement_pattern_start > r.p.movement_pattern_duration
        renew == UNION {{[quiet EXCEPT !.change = ~expired, !.pattern = n,
                                       !.pattern_duration = d, !.turn = t] :
                            d \in get_movement_pattern_duration, t \in turns(n)} :
                        n \in get_movement_pattern}
        keep == IF expired THEN {}
                ELSE {[quiet EXCEPT !.turn = t] :
                         t \in turns(r.p.current_movement_pattern)}
    IN  IF r.branch # "pass" THEN {quiet}
        ELSE IF find_target_mob(detections, rect) # NoneDet THEN attack
        ELSE IF r.p.target_locked # NoneDet
                /\ health_remaining(r.p.target_locked, detections)
        THEN {quiet}
        ELSE IF find_map_dots(detections) # <<>> THEN {quiet}
        ELSE renew \cup keep

PlanInitWith(pattern, duration) ==
    /\ pnow = PlanStart
    /\ enabled = TRUE
    /\ last_action = 0
    /\ target_locked = NoneDet
    /\ action_count = 0
    /\ last_idle_check = PlanStart
    /\ in_idle_state = FALSE
    /\ idle_until = 0
    /\ current_movement_pattern = pattern
    /\ movement_pattern_start = 0
    /\ movement_pattern_duration = duration
    /\ plast = Out("init", FALSE, 0, NoClick, {})
    /\ last_pass = -1
    /\ last_roll = PlanStart
    /\ idle_starts = <<>>
    /\ cycles = 0

\* ActionPlanner.__init__
PlanInit ==
    \E pattern \in get_movement_pattern, duration \in get_movement_pattern_duration :
        PlanInitWith(pattern, duration)

\* the planner when another part of the program is examined
PlanParked == PlanInitWith("forward", MOVEMENT_PATTERN_MIN)

\* the planner's fields after a call that left it as q
PlanCommit(q) ==
    /\ enabled' = q.enabled
    /\ last_action' = q.last_action
    /\ target_locked' = q.target_locked
    /\ action_count' = q.action_count
    /\ last_idle_check' = q.last_idle_check
    /\ in_idle_state' = q.in_idle_state
    /\ idle_until' = q.idle_until
    /\ current_movement_pattern' = q.current_movement_pattern
    /\ movement_pattern_start' = q.movement_pattern_start
    /\ movement_pattern_duration' = q.movement_pattern_duration

SetEnabled(value) ==
    /\ cycles < MaxCycles
    /\ cycles' = cycles + 1
    /\ PlanCommit(set_enabled(Planner, value))
    /\ plast' = Out("set_enabled", FALSE, 0, NoClick, {})
    /\ UNCHANGED <<pnow, last_pass, last_roll, idle_starts, planRest>>

PassBranches == {"attack", "locked", "macro", "steer"}

\* a cycle of the detection loop: the clock has advanced by step since the
\* last one
PlanAndExecute(step, detections, rect, g, a) ==
    \E now \in {pnow + step} :
    \E r \in {plan_and_execute(Planner, now, detections, TargetWindow, rect, g, a)} :
        /\ cycles < MaxCycles
        /\ cycles' = cycles + 1
        /\ pnow' = now
        /\ PlanCommit(r.p)
        /\ plast' = r.out
        /\ last_pass' = IF r.out.branch \in PassBranches THEN now ELSE last_pass
        /\ last_roll' = IF r.out.rolled THEN now ELSE last_roll
        /\ idle_starts' = IF r.out.branch = "idle_enter"
                           THEN Append(idle_starts, now) ELSE idle_starts
        /\ UNCHANGED planRest

PlanNext ==
    \/ \E value \in BOOLEAN : SetEnabled(value)
    \/ \E step \in {x \in ClockSteps : cycles < MaxCycles},
             detections \in PlanFrames, rect \in PlanRects :
          \E g \in GateDraws(Planner, pnow + step) :
             \E a \in ActDraws(Planner, pnow + step, detections, rect, g) :
                PlanAndExecute(step, detections, rect, g, a)

----------------------------------------------------------------------------
(* MainWindow of main.py: the automation preference and the controller's   *)
(* life.  Every method takes the window w (self) and returns [w, raised,   *)
(* created].  DetectionController and the overlay's set_automation_enabled *)
(* and make_clickthrough are not among the files of src/: they are taken   *)
(* from the specification (the controller owns an Action Planner, start    *)
(* sets its running flag), and each of their calls may raise.  The slots run on the GUI thread, one at a time: the hotkey      *)
(* thread queues toggle_automation to it.                                  *)

Window ==
    [automation_enabled |-> automation_enabled, controller |-> controller,
     overlay_indicator |-> overlay_indicator, overlay_shown |-> overlay_shown,
     pos_timer |-> pos_timer, start_btn |-> start_btn, stop_btn |-> stop_btn,
     window_selected |-> window_selected]

\* self._controller = None
NoController ==
    [made |-> FALSE, running |-> FALSE, action_planner |-> [enabled |-> FALSE]]

\* DetectionController(...): a controller that is not running and owns a
\* planner, enabled or not as its constructor has it
DetectionController(planner_enabled) ==
    [made |-> TRUE, running |-> FALSE,
     action_planner |-> [enabled |-> planner_enabled]]

controller_start(c) == [c EXCEPT !.running = TRUE]

\* self._overlay.set_automation_enabled(value) inside try/except
overlay_set_automation_enabled(w, value, fails) ==
    IF fails THEN w ELSE [w EXCEPT !.overlay_indicator = value]

WinResult(w, raised, created) == [w |-> w, raised |-> raised, created |-> created]

\* start applies the stored preference to the planner of the new controller
apply_preference_Skipped(w) == w

apply_preference(w) ==
    [w EXCEPT !.controller.action_planner =
                  set_enabled(@, w.automation_enabled)]

StartFaults == {"none", "overlay", "controller", "controller_start"}

\* MainWindow._refresh_windows; found: list_windows returns a window
refresh_windows(w, found) ==
    WinResult([w EXCEPT !.window_selected = found], FALSE, FALSE)

\* MainWindow.start; e holds what the environment answers: get_window_rect
\* returns a rectangle, the call that raises, the enabled flag the
\* controller constructs its planner with
start(w, e) ==
    IF ~w.window_selected \/ ~e.rect THEN WinResult(w, FALSE, FALSE)
    ELSE LET w1 == [w EXCEPT !.overlay_shown = TRUE]
             w2 == apply_preference(
                       [w1 EXCEPT !.controller =
                                      DetectionController(e.planner_enabled)])
             w3 == [w2 EXCEPT !.controller = controller_start(@)]
         IN  CASE e.fault = "overlay" -> WinResult(w1, TRUE, FALSE)
               [] e.fault = "controller" -> WinResult(w1, TRUE, FALSE)
               [] e.fault = "controller_start" -> WinResult(w2, TRUE, TRUE)
               [] OTHER -> WinResult([w3 EXCEPT !.pos_timer = TRUE,
                                                !.start_btn = FALSE,
                                                !.stop_btn = TRUE],
                                     FALSE, TRUE)

\* MainWindow.stop; fails: the controller's stop raises
stop(w, fails) ==
    IF w.controller.made /\ fails
    THEN WinResult(w, TRUE, FALSE)
    ELSE WinResult([w EXCEPT !.controller = NoController,
                             !.overlay_shown = FALSE, !.pos_timer = FALSE,
                             !.start_btn = TRUE, !.stop_btn = FALSE],
                   FALSE, FALSE)

\* MainWindow.emergency_stop
emergency_stop(w, overlay_fails) ==
    LET w1 == [w EXCEPT !.automation_enabled = FALSE]
        w2 == overlay_set_automation_enabled(w1, FALSE, overlay_fails)
        w3 == IF w2.controller.made
              THEN [w2 EXCEPT !.controller.action_planner = set_enabled(@, FALSE)]
              ELSE w2
    IN  WinResult(w3, FALSE, FALSE)

\* MainWindow.toggle_automation
toggle_automation(w, overlay_fails) ==
    LET w1 == [w EXCEPT !.automation_enabled = ~w.automation_enabled]
        w2 == overlay_set_automation_enabled(w1, w1.automation_enabled,
                                             overlay_fails)
        w3 == IF w2.controller.made
              THEN [w2 EXCEPT !.controller.action_planner =
                                  set_enabled(@, w1.automation_enabled)]
              ELSE w2
    IN  WinResult(w3, FALSE, FALSE)

----------------------------------------------------------------------------
(* The window as a state machine: the operator presses the buttons and the *)
(* hotkey in any order.                                                    *)

WinLast(op, r) == [op |-> op, raised |-> r.raised, created |-> r.created]

\* MainWindow.__init__; indicator is what the overlay shows once
\* set_automation_enabled(True) has been tried, found whether
\* _refresh_windows found a window
WinInitWith(indicator, found) ==
    /\ automation_enabled = TRUE
    /\ controller = NoController
    /\ overlay_indicator = indicator
    /\ overlay_shown = FALSE
    /\ pos_timer = FALSE
    /\ start_btn = TRUE
    /\ stop_btn = FALSE
    /\ window_selected = found
    /\ wlast = [op |-> "init", raised |-> FALSE, created |-> FALSE]

WinInit == \E indicator, found \in BOOLEAN : WinInitWith(indicator, found)

\* the window when another part of the program is examined
WinParked == WinInitWith(TRUE, TRUE)

WinCommit(op, r) ==
    /\ automation_enabled' = r.w.automation_enabled
    /\ controller' = r.w.controller
    /\ overlay_indicator' = r.w.overlay_indicator
    /\ overlay_shown' = r.w.overlay_shown
    /\ pos_timer' = r.w.pos_timer
    /\ start_btn' = r.w.start_btn
    /\ stop_btn' = r.w.stop_btn
    /\ window_selected' = r.w.window_selected
    /\ wlast' = WinLast(op, r)
    /\ UNCHANGED winRest

RefreshWindows(found) ==
    WinCommit("refresh_windows", refresh_windows(Window, found))

Start(e) == WinCommit("start", start(Window, e))

Stop(fails) == WinCommit("stop", stop(Window, fails))

EmergencyStop(overlay_fails) ==
    WinCommit("emergency_stop", emergency_stop(Window, overlay_fails))

ToggleAutomation(overlay_fails) ==
    WinCommit("toggle_automation", toggle_automation(Window, overlay_fails))

StartAnswers ==
    [rect : BOOLEAN, fault : StartFaults, planner_enabled : BOOLEAN]

WinNext ==
    \/ \E found \in BOOLEAN : RefreshWindows(found)
    \/ \E e \in StartAnswers : Start(e)
    \/ \E fails \in BOOLEAN : Stop(fails)
    \/ \E overlay_fails \in BOOLEAN : EmergencyStop(overlay_fails)
    \/ \E overlay_fails \in BOOLEAN : ToggleAutomation(overlay_fails)

----------------------------------------------------------------------------
(* capture.py: CaptureWorker.  The worker thread (run) and a reader thread *)
(* (get_latest_frame and the caller that owns the copy) interleave at the  *)
(* statements that touch shared state.  A frame object is an entry of      *)
(* frames; its pixels are two cells, both holding the number of the grab   *)
(* that produced it.  Conversion and resizing build a new private array    *)
(* and are part of the grab step.                                          *)

\* the grabs and the reads of one run of the model
MaxGrabs == 2
MaxReads == 2

\* np.array(img) of grab n: every pixel comes from that one grab
Pixels(n) == <<n, n>>

\* what a caller writes into the array it was handed
Scribble == <<0, 0>>

\* the window sizes get_window_rect reports; NoSize when it returns None
NoSize == <<0, 0>>
WindowSizes == {<<4, 3>>, <<2, 2>>}

\* a variant of ndarray.copy() that hands out the array itself
frame_copy_Alias(mem, frame) == [mem |-> mem, frame |-> frame]

\* ndarray.copy(): a new object with the same pixels
frame_copy(mem, frame) ==
    [mem |-> Append(mem, mem[frame]), frame |-> Len(mem) + 1]

CapStep(op, raised) == [op |-> op, raised |-> raised]

CapInit ==
    /\ running = FALSE
    /\ latest_frame = 0
    /\ lock = "free"
    /\ last_window_size = NoSize
    /\ frames = <<>>
    /\ wpc = "unstarted"
    /\ wframe = 0
    /\ rpc = "idle"
    /\ rret = 0
    /\ clast = CapStep("init", FALSE)
    /\ stored = <<>>
    /\ stores_since_stop = 0
    /\ grabs = 0
    /\ captured_from = <<>>
    /\ rsize = NoSize

CapParked == CapInit

\* start_capture: Thread.start() raises on a thread that has ended
start_capture ==
    /\ running' = TRUE
    /\ wpc' = IF wpc = "unstarted" THEN "check" ELSE wpc
    /\ clast' = CapStep("start_capture", wpc = "dead")
    /\ stores_since_stop' = 0
    /\ UNCHANGED <<latest_frame, lock, last_window_size, frames, wframe, rpc,
                   rret, stored, grabs, captured_from,
                   rsize, capRest>>

stop_capture ==
    /\ running' = FALSE
    /\ clast' = CapStep("stop_capture", FALSE)
    /\ stores_since_stop' = IF running THEN 0 ELSE stores_since_stop
    /\ UNCHANGED <<latest_frame, lock, last_window_size, frames, wpc, wframe,
                   rpc, rret, stored, grabs, captured_from,
                   rsize, capRest>>

\* run, line 41: the flag is read; when clear the worker sleeps and polls
RunCheck ==
    /\ wpc = "check"
    /\ running
    /\ wpc' = "resolve"
    /\ clast' = CapStep("check", FALSE)
    /\ UNCHANGED <<running, latest_frame, lock, last_window_size, frames, wframe,
                   rpc, rret, stored, stores_since_stop, grabs, captured_from,
                   rsize, capRest>>

\* run, lines 44-51: get_window_rect; None backs off and retries
RunResolve(size) ==
    /\ wpc = "resolve"
    /\ grabs < MaxGrabs
    /\ wpc' = IF size = NoSize THEN "check" ELSE "grab"
    /\ last_window_size' = IF size = NoSize THEN last_window_size ELSE size
    /\ clast' = CapStep(IF size = NoSize THEN "unresolved" ELSE "resolved", FALSE)
    /\ UNCHANGED <<running, latest_frame, lock, frames, wframe, rpc, rret,
                   stored, stores_since_stop, grabs, captured_from,
                   rsize, capRest>>

\* run, lines 52-63: grab, convert, resize; an error of the grab leaves run
RunGrab(ok) ==
    /\ wpc = "grab"
    /\ grabs' = grabs + 1
    /\ captured_from' = Append(captured_from, last_window_size)
    /\ IF ok
       THEN /\ frames' = Append(frames, Pixels(grabs + 1))
            /\ wframe' = Len(frames) + 1
            /\ wpc' = "lock"
       ELSE /\ wpc' = "dead"
            /\ UNCHANGED <<frames, wframe>>
    /\ clast' = CapStep("grab", ~ok)
    /\ UNCHANGED <<running, latest_frame, lock, last_window_size, rpc, rret,
                   stored, stores_since_stop, rsize, capRest>>

\* run, line 64: with self._lock
RunLock ==
    /\ wpc = "lock"
    /\ lock = "free"
    /\ lock' = "worker"
    /\ wpc' = "store"
    /\ clast' = CapStep("lock", FALSE)
    /\ UNCHANGED <<running, latest_frame, last_window_size, frames, wframe, rpc,
                   rret, stored, stores_since_stop, grabs, captured_from,
                   rsize, capRest>>

\* run, line 65: self.latest_frame = frame
RunStore ==
    /\ wpc = "store"
    /\ latest_frame' = wframe
    /\ stored' = Append(stored, frames[wframe][1])
    /\ stores_since_stop' = IF running THEN 0 ELSE stores_since_stop + 1
    /\ wpc' = "unlock"
    /\ clast' = CapStep("store", FALSE)
    /\ UNCHANGED <<running, lock, last_window_size, frames, wframe, rpc, rret,
                   grabs, captured_from,
                   rsize, capRest>>

\* run, lines 65-66: the lock is released, the worker sleeps the interval
RunUnlock ==
    /\ wpc = "unlock"
    /\ lock' = "free"
    /\ wpc' = "check"
    /\ clast' = CapStep("unlock", FALSE)
    /\ UNCHANGED <<running, latest_frame, last_window_size, frames, wframe, rpc,
                   rret, stored, stores_since_stop, grabs, captured_from,
                   rsize, capRest>>

\* get_latest_frame, line 33: with self._lock
ReadLock ==
    /\ rpc = "idle"
    /\ Len(frames) < MaxGrabs + MaxReads
    /\ lock = "free"
    /\ lock' = "reader"
    /\ rpc' = "locked"
    /\ clast' = CapStep("read_lock", FALSE)
    /\ UNCHANGED <<running, latest_frame, last_window_size, frames, wpc, wframe,
                   rret, stored, stores_since_stop, grabs, captured_from,
                   rsize, capRest>>

\* get_latest_frame, line 34: None, or the copy
ReadCopy ==
    /\ rpc = "locked"
    /\ LET c == frame_copy(frames, latest_frame)
       IN  IF latest_frame = 0
           THEN rret' = 0 /\ UNCHANGED frames
           ELSE rret' = c.frame /\ frames' = c.mem
    /\ rpc' = "copied"
    /\ clast' = CapStep("read_copy", FALSE)
    /\ UNCHANGED <<running, latest_frame, lock, last_window_size, wpc, wframe,
                   stored, stores_since_stop, grabs, captured_from,
                   rsize, capRest>>

\* get_latest_frame returns: the lock is released
ReadReturn ==
    /\ rpc = "copied"
    /\ lock' = "free"
    /\ rpc' = "returned"
    /\ clast' = CapStep("read_return", FALSE)
    /\ UNCHANGED <<running, latest_frame, last_window_size, frames, wpc, wframe,
                   rret, stored, stores_since_stop, grabs, captured_from,
                   rsize, capRest>>

\* the caller draws on the array it received
CallerWrites ==
    /\ rpc = "returned"
    /\ rret # 0
    /\ frames[rret] # Scribble
    /\ frames' = [frames EXCEPT ![rret] = Scribble]
    /\ clast' = CapStep("caller_writes", FALSE)
    /\ UNCHANGED <<running, latest_frame, lock, last_window_size, wpc, wframe,
                   rpc, rret, stored, stores_since_stop, grabs, captured_from,
                   rsize, capRest>>

\* the caller is done with the frame and may read again
CallerDone ==
    /\ rpc = "returned"
    /\ rpc' = "idle"
    /\ rsize' = NoSize
    /\ clast' = CapStep("caller_done", FALSE)
    /\ UNCHANGED <<running, latest_frame, lock, last_window_size, frames, wpc,
                   wframe, rret, stored, stores_since_stop, grabs,
                   captured_from, capRest>>

\* get_window_size, called by the reader that holds a frame: no lock is
\* taken
get_window_size ==
    /\ rpc = "returned"
    /\ rret # 0
    /\ rsize = NoSize
    /\ rsize' = last_window_size
    /\ clast' = CapStep("get_window_size", FALSE)
    /\ UNCHANGED <<running, latest_frame, lock, last_window_size, frames, wpc,
                   wframe, rpc, rret, stored, stores_since_stop, grabs,
                   captured_from, capRest>>

CapNext ==
    \/ start_capture
    \/ stop_capture
    \/ RunCheck
    \/ \E size \in WindowSizes \cup {NoSize} : RunResolve(size)
    \/ \E ok \in BOOLEAN : RunGrab(ok)
    \/ RunLock
    \/ RunStore
    \/ RunUnlock
    \/ ReadLock
    \/ ReadCopy
    \/ ReadReturn
    \/ CallerWrites
    \/ CallerDone
    \/ get_window_size

----------------------------------------------------------------------------
(* ahk_controller.py: AHKHardwareController.  A child process is running,  *)
(* dying (its termination was forced but it has not gone yet) or exited.   *)
(* The controller is the record [process, is_running, children]; the       *)
(* executable and the script are looked up in the file system.             *)

\* the child processes one run of the model launches
MaxChildren == 3

Ahk == [process |-> process, is_running |-> is_running, children |-> children]

\* is_active: process.poll() is None
is_active(h) ==
    IF h.process = 0 THEN FALSE ELSE h.children[h.process] # "exited"

AhkResult(h, ret, raised) == [h |-> h, ret |-> ret, raised |-> raised]

\* start; popen_ok says whether subprocess.Popen succeeded
ahk_start(h, exe, script, popen_ok) ==
    IF ~exe THEN AhkResult(h, FALSE, FALSE)
    ELSE IF ~script THEN AhkResult(h, FALSE, FALSE)
    ELSE IF ~popen_ok THEN AhkResult(h, FALSE, FALSE)
    ELSE AhkResult([h EXCEPT !.children = Append(h.children, "running"),
                             !.process = Len(h.children) + 1,
                             !.is_running = TRUE],
                   TRUE, FALSE)

\* how the termination of a child can go: it exits within the two seconds
\* of wait(), or wait() times out and kill() is called, which may fail
StopOutcomes == {"graceful", "killed", "kill_fails"}

\* a variant of stop that only requests termination and does not wait
ahk_stop_NoWait(h, outcome) ==
    IF h.process = 0 THEN AhkResult(h, TRUE, FALSE)
    ELSE AhkResult([h EXCEPT !.is_running = FALSE], TRUE, FALSE)

\* stop
ahk_stop(h, outcome) ==
    IF h.process = 0 THEN AhkResult(h, TRUE, FALSE)
    ELSE IF h.children[h.process] = "exited" \/ outcome = "graceful"
    THEN AhkResult([h EXCEPT !.children[h.process] = "exited",
                             !.is_running = FALSE],
                   TRUE, FALSE)
    ELSE IF outcome = "killed"
    THEN AhkResult([h EXCEPT !.children[h.process] = "dying"], TRUE, FALSE)
    ELSE AhkResult(h, TRUE, FALSE)

AhkLast(op, r) == [op |-> op, ret |-> r.ret, raised |-> r.raised]

AhkInit ==
    /\ ahk_exe \in BOOLEAN
    /\ script_exists \in BOOLEAN
    /\ process = 0
    /\ is_running = FALSE
    /\ children = <<>>
    /\ hlast = [op |-> "init", ret |-> TRUE, raised |-> FALSE]

AhkParked ==
    /\ AhkInit
    /\ ahk_exe
    /\ script_exists

AhkCommit(op, r) ==
    /\ process' = r.h.process
    /\ is_running' = r.h.is_running
    /\ children' = r.h.children
    /\ hlast' = AhkLast(op, r)
    /\ UNCHANGED <<ahk_exe, ahkRest>>

AhkStart(popen_ok) ==
    /\ Len(children) < MaxChildren
    /\ AhkCommit("start", ahk_start(Ahk, ahk_exe, script_exists, popen_ok))
    /\ UNCHANGED script_exists

AhkStop(outcome) ==
    /\ AhkCommit("stop", ahk_stop(Ahk, outcome))
    /\ UNCHANGED script_exists

IsActive ==
    /\ AhkCommit("is_active", AhkResult(Ahk, is_active(Ahk), FALSE))
    /\ UNCHANGED script_exists

\* the script file is removed or put back
ScriptChanges ==
    /\ script_exists' = ~script_exists
    /\ hlast' = [op |-> "script", ret |-> TRUE, raised |-> FALSE]
    /\ UNCHANGED <<ahk_exe, process, is_running, children, ahkRest>>

\* a child ends: by itself, or when its forced termination completes
ChildExits(c) ==
    /\ children[c] # "exited"
    /\ children' = [children EXCEPT ![c] = "exited"]
    /\ hlast' = [op |-> "child_exits", ret |-> TRUE, raised |-> FALSE]
    /\ UNCHANGED <<ahk_exe, script_exists, process, is_running, ahkRest>>

AhkNext ==
    \/ \E popen_ok \in BOOLEAN : AhkStart(popen_ok)
    \/ \E outcome \in StopOutcomes : AhkStop(outcome)
    \/ IsActive
    \/ ScriptChanges
    \/ \E c \in DOMAIN children : ChildExits(c)

----------------------------------------------------------------------------
(* main.py: the three rewrites of skill_combo_config.py.  A line of the    *)
(* file is a record of its text and of what the rewrites test on it: the   *)
(* declaration its text contains (decl), whether it starts with '#' once   *)
(* stripped (comment), whether it contains '}' (brace) and how many '['    *)
(* and ']' it contains (opens, closes).                                    *)

\* the saves of one run of the model and the items of the initial file
MaxSaves == 2
MaxItems == 3

Line(text, decl, comment, brace, opens, closes) ==
    [text |-> text, decl |-> decl, comment |-> comment, brace |-> brace,
     opens |-> opens, closes |-> closes]

Plain(text) == Line(text, "none", FALSE, FALSE, 0, 0)

\* the lines every save writes for a declaration, from the values in memory
NewLines(decl) ==
    CASE decl = "STEALTH" ->
           <<Line("STEALTH_ATTACK_MODE_ENABLED = True", "STEALTH", FALSE, FALSE, 0, 0)>>
      [] decl = "REQUIRE" ->
           <<Line("REQUIRE_MOB_HEALTH_FOR_SKILLS = False", "REQUIRE", FALSE, FALSE, 0, 0)>>
      [] decl = "WEIGHTS" ->
           <<Line("ATTACK_MODE_WEIGHTS = {", "WEIGHTS", FALSE, FALSE, 0, 0),
             Plain("    'standard_attack': 0.5,"),
             Plain("    'single_skill': 0.3,"),
             Plain("    'combo_set': 0.2,"),
             Line("}", "none", FALSE, TRUE, 0, 0)>>
      [] decl = "POOL" ->
           <<Line("SINGLE_SKILL_POOL = ['1', '2']", "POOL", FALSE, FALSE, 1, 1)>>
      [] decl = "GCD" ->
           <<Line("SINGLE_SKILL_GLOBAL_COOLDOWN = 1.5", "GCD", FALSE, FALSE, 0, 0)>>
      [] decl = "COOLDOWNS" ->
           <<Line("SKILL_COOLDOWNS = {", "COOLDOWNS", FALSE, FALSE, 0, 0),
             Plain("    '1': 10.0,"),
             Line("}", "none", FALSE, TRUE, 0, 0)>>
      [] decl = "COMBOS" ->
           <<Line("COMBO_SETS = [", "COMBOS", FALSE, FALSE, 1, 0),
             Plain("    {"),
             Plain("        'name': 'Basic',"),
             Line("        'skills': ['1', '2'],", "none", FALSE, FALSE, 1, 1),
             Plain("        'cooldown': 60.0,"),
             Plain("        'delay_between_skills': 0.5,"),
             Plain("        'enabled': True,"),
             Line("    },", "none", FALSE, TRUE, 0, 0),
             Line("]", "none", FALSE, FALSE, 0, 1)>>

\* _save_main_config_to_file, lines 232-253, from line i on.  The loop is
\* for i, line in enumerate(lines): the inner while (249-250) advances a
\* local i that the next iteration overwrites, so no line is skipped.
RECURSIVE save_main_config_to_file(_, _)
save_main_config_to_file(lines, i) ==
    IF i > Len(lines) THEN <<>>
    ELSE LET line == lines[i]
             out == IF line.decl = "STEALTH" /\ ~line.comment THEN NewLines("STEALTH")
                    ELSE IF line.decl = "REQUIRE" /\ ~line.comment THEN NewLines("REQUIRE")
                    ELSE IF line.decl = "WEIGHTS" THEN NewLines("WEIGHTS")
                    ELSE <<line>>
         IN  out \o save_main_config_to_file(lines, i + 1)

\* main.py 790-791: the first line from i on that starts, once stripped,
\* with SINGLE_SKILL_GLOBAL_COOLDOWN or '#' (a stripped line never starts
\* with a newline)
RECURSIVE SkipPool(_, _)
SkipPool(lines, i) ==
    IF i > Len(lines) THEN i
    ELSE IF (lines[i].decl = "GCD" /\ ~lines[i].comment) \/ lines[i].comment THEN i
    ELSE SkipPool(lines, i + 1)

\* main.py 809-810: the first line from i on that contains '}'
RECURSIVE SkipToBrace(_, _)
SkipToBrace(lines, i) ==
    IF i > Len(lines) THEN i
    ELSE IF lines[i].brace THEN i
    ELSE SkipToBrace(lines, i + 1)

\* SkillEditorDialog._save_config_to_file, lines 782-817, from line i on
RECURSIVE save_config_to_file(_, _)
save_config_to_file(lines, i) ==
    IF i > Len(lines) THEN <<>>
    ELSE LET line == lines[i]
         IN  IF line.decl = "POOL"
             THEN NewLines("POOL") \o save_config_to_file(lines, SkipPool(lines, i))
             ELSE IF line.decl = "GCD" /\ ~line.comment
             THEN NewLines("GCD") \o save_config_to_file(lines, i + 1)
             ELSE IF line.decl = "COOLDOWNS"
             THEN NewLines("COOLDOWNS")
                  \o save_config_to_file(lines, SkipToBrace(lines, i + 1) + 1)
             ELSE <<line>> \o save_config_to_file(lines, i + 1)

\* main.py 1088-1094: past the line that closes the bracket opened
RECURSIVE SkipBrackets(_, _, _)
SkipBrackets(lines, i, bracket_count) ==
    IF i > Len(lines) \/ bracket_count <= 0 THEN i
    ELSE SkipBrackets(lines, i + 1, bracket_count + lines[i].opens - lines[i].closes)

\* ComboEditorDialog._save_combos_to_file, lines 1063-1100, from line i on
RECURSIVE save_combos_to_file(_, _)
save_combos_to_file(lines, i) ==
    IF i > Len(lines) THEN <<>>
    ELSE LET line == lines[i]
         IN  IF line.decl = "COMBOS"
             THEN NewLines("COMBOS")
                  \o save_combos_to_file(lines, SkipBrackets(lines, i + 1, 1))
             ELSE <<line>> \o save_combos_to_file(lines, i + 1)

\* the declarations each save recognises
Recognised(op) ==
    CASE op = "main" -> {"STEALTH", "REQUIRE", "WEIGHTS"}
      [] op = "skills" -> {"POOL", "GCD", "COOLDOWNS"}
      [] op = "combos" -> {"COMBOS"}

\* the file as its author wrote it: declarations, each with the lines of its
\* literal, and single lines that are none
Item(kind, lines) == [kind |-> kind, lines |-> lines]

OldItems ==
    {Item("STEALTH",
          <<Line("STEALTH_ATTACK_MODE_ENABLED = False", "STEALTH", FALSE, FALSE, 0, 0)>>),
     Item("REQUIRE",
          <<Line("REQUIRE_MOB_HEALTH_FOR_SKILLS = True", "REQUIRE", FALSE, FALSE, 0, 0)>>),
     Item("WEIGHTS",
          <<Line("ATTACK_MODE_WEIGHTS = {", "WEIGHTS", FALSE, FALSE, 0, 0),
            Plain("    'standard_attack': 0.50,    # 50% chance"),
            Line("}", "none", FALSE, TRUE, 0, 0)>>),
     Item("POOL",
          <<Line("SINGLE_SKILL_POOL = ['1', '2', '3']  # pool", "POOL", FALSE, FALSE, 1, 1)>>),
     Item("GCD",
          <<Line("SINGLE_SKILL_GLOBAL_COOLDOWN = 2.0  # GCD", "GCD", FALSE, FALSE, 0, 0)>>),
     Item("COOLDOWNS",
          <<Line("SKILL_COOLDOWNS = {", "COOLDOWNS", FALSE, FALSE, 0, 0),
            Line("    # Number row skills", "none", TRUE, FALSE, 0, 0),
            Plain("    '1': 12.0,"),
            Line("}", "none", FALSE, TRUE, 0, 0)>>),
     Item("COMBOS",
          <<Line("COMBO_SETS = [", "COMBOS", FALSE, FALSE, 1, 0),
            Plain("    {"),
            Line("        'skills': ['1'],", "none", FALSE, FALSE, 1, 1),
            Line("    },", "none", FALSE, TRUE, 0, 0),
            Line("]", "none", FALSE, FALSE, 0, 1)>>),
     Item("none", <<Plain("")>>),
     Item("none", <<Line("# settings", "none", TRUE, FALSE, 0, 0)>>),
     Item("none", <<Line("# STEALTH_ATTACK_MODE_ENABLED = True", "STEALTH", TRUE, FALSE, 0, 0)>>),
     Item("none", <<Plain("DELAY_RANDOMIZATION = 0.15")>>)}

\* the lines of a list of items, in order
RECURSIVE Flatten(_)
Flatten(items) ==
    IF items = <<>> THEN <<>> ELSE Head(items).lines \o Flatten(Tail(items))

\* the files the model starts from: every declaration at most once
ConfigFiles ==
    {f \in UNION {[1..n -> OldItems] : n \in 1..MaxItems} :
        \A i, j \in DOMAIN f : i # j /\ f[i].kind # "none" => f[i].kind # f[j].kind}

\* the file a save should leave: each recognised declaration replaced by its
\* new literal, every other line where it was
Rewritten(items, op) ==
    [i \in DOMAIN items |->
        IF items[i].kind \in Recognised(op)
        THEN Item(items[i].kind, NewLines(items[i].kind))
        ELSE items[i]]

CfgInit ==
    /\ config_items \in ConfigFiles
    /\ config_lines = Flatten(config_items)
    /\ slast = "none"
    /\ saves = 0

CfgParked ==
    /\ config_items = <<Item("none", <<Plain("")>>)>>
    /\ config_lines = Flatten(config_items)
    /\ slast = "none"
    /\ saves = 0

\* one save: the file is read, rewritten and written back
Save(op, new_lines) ==
    /\ saves < MaxSaves
    /\ saves' = saves + 1
    /\ config_lines' = new_lines
    /\ config_items' = Rewritten(config_items, op)
    /\ slast' = op
    /\ UNCHANGED cfgRest

SaveMainConfig == Save("main", save_main_config_to_file(config_lines, 1))

SaveSkillConfig == Save("skills", save_config_to_file(config_lines, 1))

SaveCombos == Save("combos", save_combos_to_file(config_lines, 1))

CfgNext == SaveMainConfig \/ SaveSkillConfig \/ SaveCombos

----------------------------------------------------------------------------
(* main.py run as a script: is_admin, run_as_admin and the __main__ block. *)
(* A process is the record [pc, elevated, shell, gui, status]: where it    *)
(* stands, whether it really holds administrator rights, how its call of   *)
(* ShellExecuteW went, whether it has entered run_app, and its exit status *)
(* once it has ended.                                                      *)

\* the processes of one run of the model
MaxProcs == 2

\* values ShellExecuteW returns (above 32 is success) and the status
\* app.exec() hands to sys.exit
ShellReturns == {5, 32, 33}
AppStatuses == {0, 1}
NoStatus == 0 - 1

\* how a call of ShellExecuteW can go: it raises (no windll), or returns
ShellAnswers ==
    {[called |-> TRUE, raised |-> TRUE, ret |-> 0]}
    \cup {[called |-> TRUE, raised |-> FALSE, ret |-> r] : r \in ShellReturns}

NotCalled == [called |-> FALSE, raised |-> FALSE, ret |-> 0]

Proc(elevated) ==
    [pc |-> "main", elevated |-> elevated, shell |-> NotCalled, gui |-> FALSE,
     status |-> NoStatus]

Exit(p, status) == [p EXCEPT !.pc = "exited", !.status = status]

\* a variant of is_admin that takes a failed query for a yes
is_admin_Lenient(p, raises) == raises \/ p.elevated

\* is_admin: IsUserAnAdmin(), False when the call raises
is_admin(p, raises) == IF raises THEN FALSE ELSE p.elevated

\* __main__, lines 1132-1136 and 1148-1150: the gate
main_gate(p, raises) ==
    IF ~is_admin(p, raises)
    THEN [p EXCEPT !.pc = "run_as_admin"]
    ELSE [p EXCEPT !.pc = "run_app", !.gui = TRUE]

\* run_as_admin with ShellExecuteW answering a: sys.exit(0) passes the
\* except clauses, a failure returns False to __main__
run_as_admin(p, a) ==
    IF ~a.raised /\ a.ret > 32
    THEN Exit([p EXCEPT !.shell = a], 0)
    ELSE [p EXCEPT !.shell = a, !.pc = "prompt"]

\* __main__, lines 1138-1146: input() returns, or raises EOFError, which the
\* except clause answers with a second input() before sys.exit(1); an error
\* of that one ends the interpreter with status 1 as well
main_refuse(p, eof) ==
    IF eof /\ p.pc = "prompt"
    THEN [p EXCEPT !.pc = "prompt_again"]
    ELSE Exit(p, 1)

\* run_app: sys.exit(app.exec())
run_app(p, status) == Exit(p, status)

ElevInit ==
    /\ procs \in {<<Proc(e)>> : e \in BOOLEAN}
    /\ elast = [p |-> 0, op |-> "init"]

ElevParked ==
    /\ procs = <<Proc(FALSE)>>
    /\ elast = [p |-> 0, op |-> "init"]

ElevCommit(i, op, q) ==
    /\ procs' = [procs EXCEPT ![i] = q]
    /\ elast' = [p |-> i, op |-> op]
    /\ UNCHANGED elevRest

MainGate(i, raises) ==
    /\ procs[i].pc = "main"
    /\ ElevCommit(i, "gate", main_gate(procs[i], raises))

\* a successful ShellExecuteW starts an elevated process, unless the budget
\* of processes is spent
RunAsAdmin(i, a) ==
    /\ procs[i].pc = "run_as_admin"
    /\ LET q == run_as_admin(procs[i], a)
       IN  IF q.pc = "exited"
           THEN /\ Len(procs) < MaxProcs
                /\ procs' = Append([procs EXCEPT ![i] = q], Proc(TRUE))
                /\ elast' = [p |-> i, op |-> "run_as_admin"]
                /\ UNCHANGED elevRest
           ELSE ElevCommit(i, "run_as_admin", q)

MainRefuse(i, eof) ==
    /\ procs[i].pc \in {"prompt", "prompt_again"}
    /\ ElevCommit(i, "refuse", main_refuse(procs[i], eof))

RunApp(i, status) ==
    /\ procs[i].pc = "run_app"
    /\ ElevCommit(i, "run_app", run_app(procs[i], status))

\* the user starts the script once more, elevated or not
Launch(e) ==
    /\ Len(procs) < MaxProcs
    /\ procs' = Append(procs, Proc(e))
    /\ elast' = [p |-> Len(procs) + 1, op |-> "launch"]
    /\ UNCHANGED elevRest

ElevNext ==
    \/ \E i \in DOMAIN procs, raises \in BOOLEAN : MainGate(i, raises)
    \/ \E i \in DOMAIN procs, a \in ShellAnswers : RunAsAdmin(i, a)
    \/ \E i \in DOMAIN procs, eof \in BOOLEAN : MainRefuse(i, eof)
    \/ \E i \in DOMAIN procs, status \in AppStatuses : RunApp(i, status)
    \/ \E e \in BOOLEAN : Launch(e)

----------------------------------------------------------------------------
(* pathfinding.py: A* between integer positions of an open grid.  One call *)
(* of astar is followed step by step: the bounds check of the goal, then   *)
(* one iteration of the while loop per step.  The heap holds (f, position) *)
(* tuples, which Python orders by f, then x, then y; no entry is pushed    *)
(* twice, so the heap is a set.                                            *)

MaxSide == 3
Sides == 0..MaxSide
Coords == (0 - 1)..MaxSide
Positions == Coords \X Coords

\* None, as a came_from value
NoPos == <<>>

\* g_score.get(n, 1_000_000)
Unreached == 1000000

manhattan(a, b) == Abs(a[1] - b[1]) + Abs(a[2] - b[2])

neighbors_Diagonal(pos) ==
    <<<<pos[1] + 1, pos[2]>>, <<pos[1] - 1, pos[2]>>,
      <<pos[1], pos[2] + 1>>, <<pos[1], pos[2] - 1>>,
      <<pos[1] + 1, pos[2] + 1>>>>

neighbors(pos) ==
    <<<<pos[1] + 1, pos[2]>>, <<pos[1] - 1, pos[2]>>,
      <<pos[1], pos[2] + 1>>, <<pos[1], pos[2] - 1>>>>

\* 0 <= x < width and 0 <= y < height
InBounds(width, height, pos) ==
    /\ 0 <= pos[1] /\ pos[1] < width
    /\ 0 <= pos[2] /\ pos[2] < height

\* the order of the heap's tuples (f, (x, y))
EntryLess(a, b) ==
    \/ a[1] < b[1]
    \/ a[1] = b[1] /\ a[2][1] < b[2][1]
    \/ a[1] = b[1] /\ a[2][1] = b[2][1] /\ a[2][2] < b[2][2]

\* heapq.heappop: the smallest entry
heappop(heap) == CHOOSE e \in heap : \A o \in heap \ {e} : EntryLess(e, o)

\* the search state: the heap and the two dictionaries
Search(heap, came, g) == [open_set |-> heap, came_from |-> came, g_score |-> g]

\* the for loop over neighbors(current), from its i-th element on
RECURSIVE relax(_, _, _, _, _, _, _)
relax(width, height, goal, current, ns, i, st) ==
    IF i > Len(ns) THEN st
    ELSE
        LET n == ns[i]
            tentative_g == st.g_score[current] + 1
            known == IF n \in DOMAIN st.g_score THEN st.g_score[n]
                     ELSE Unreached
        IN  IF ~InBounds(width, height, n)
            THEN relax(width, height, goal, current, ns, i + 1, st)
            ELSE IF tentative_g < known
            THEN relax(width, height, goal, current, ns, i + 1,
                       Search(st.open_set
                                 \cup {<<tentative_g + manhattan(n, goal), n>>},
                              Put(st.came_from, n, current),
                              Put(st.g_score, n, tentative_g)))
            ELSE relax(width, height, goal, current, ns, i + 1, st)

\* the path from start to p, read backwards through came_from
RECURSIVE reconstruct(_, _)
reconstruct(came, p) ==
    IF p = NoPos THEN <<>>
    ELSE Append(reconstruct(came, IF p \in DOMAIN came THEN came[p]
                                  ELSE NoPos),
                p)

NoPath == [none |-> TRUE, path |-> <<>>]
Path(path) == [none |-> FALSE, path |-> path]

PfInit ==
    /\ grid_w \in Sides
    /\ grid_h \in Sides
    /\ pf_start \in Positions
    /\ pf_goal \in Positions
    /\ open_set = {}
    /\ came_from = EmptyMap
    /\ g_score = EmptyMap
    /\ pf_pc = "call"
    /\ pf_ret = NoPath

PfParked ==
    /\ grid_w = 0
    /\ grid_h = 0
    /\ pf_start = <<0, 0>>
    /\ pf_goal = <<0, 0>>
    /\ open_set = {}
    /\ came_from = EmptyMap
    /\ g_score = EmptyMap
    /\ pf_pc = "parked"
    /\ pf_ret = NoPath

\* astar up to the while loop: the goal's bounds check and the first push
AstarCall ==
    /\ pf_pc = "call"
    /\ IF ~InBounds(grid_w, grid_h, pf_goal)
       THEN /\ pf_pc' = "done"
            /\ pf_ret' = NoPath
            /\ UNCHANGED <<open_set, came_from, g_score>>
       ELSE /\ pf_pc' = "loop"
            /\ open_set' = {<<0, pf_start>>}
            /\ came_from' = Put(EmptyMap, pf_start, NoPos)
            /\ g_score' = Put(EmptyMap, pf_start, 0)
            /\ UNCHANGED pf_ret
    /\ UNCHANGED <<grid_w, grid_h, pf_start, pf_goal>>
    /\ UNCHANGED pfRest

\* one test of the while condition and, the heap holding entries, one
\* iteration: pop, then return the path or relax the neighbors
AstarIterate ==
    /\ pf_pc = "loop"
    /\ IF open_set = {}
       THEN /\ pf_pc' = "done"
            /\ pf_ret' = NoPath
            /\ UNCHANGED <<open_set, came_from, g_score>>
       ELSE LET e == heappop(open_set)
                current == e[2]
                st == relax(grid_w, grid_h, pf_goal, current,
                            neighbors(current), 1,
                            Search(open_set \ {e}, came_from, g_score))
            IN  IF current = pf_goal
                THEN /\ pf_pc' = "done"
                     /\ pf_ret' = Path(reconstruct(came_from, current))
                     /\ open_set' = open_set \ {e}
                     /\ UNCHANGED <<came_from, g_score>>
                ELSE /\ open_set' = st.open_set
                     /\ came_from' = st.came_from
                     /\ g_score' = st.g_score
                     /\ UNCHANGED <<pf_pc, pf_ret>>
    /\ UNCHANGED <<grid_w, grid_h, pf_start, pf_goal>>
    /\ UNCHANGED pfRest

PfNext ==
    \/ AstarCall
    \/ AstarIterate

----------------------------------------------------------------------------
(* The autoplay simulation: player.py, map.py, combat.py and autoplay.py.  *)
(* A dictionary is a sequence of [item, qty] pairs in insertion order.     *)
(* Player has no pos and no gold field: each attribute exists only when    *)
(* the caller has set it, and reading it otherwise raises AttributeError.  *)

\* GridMap(width, height)
GridWidth == 4
GridHeight == 4

\* AutoPlayController(inventory_capacity, hp_potion_name, potion_refill_amount)
inventory_capacity == 3
hp_potion_name == "hp_potion"
potion_refill_amount == 2

\* the village of tick
VillagePos == <<0, 0>>

\* the clock of the simulation: it starts late enough for every skill,
\* last used at 0.0, to be ready
SimStart == 5
MaxSimTime == SimStart + 1

\* the ticks and attacks one run makes
MaxSimCalls == 3

AIStates == {"aggressive", "defensive", "passive"}

\* player.pos, set by the caller or missing
At(pos) == [set |-> TRUE, at |-> pos]
Nowhere == [set |-> FALSE, at |-> <<0, 0>>]

Entry(item, qty) == [item |-> item, qty |-> qty]

inv_has(inv, item) == \E i \in DOMAIN inv : inv[i].item = item

\* inventory.get(item, 0)
inv_get(inv, item) ==
    IF inv_has(inv, item)
    THEN inv[CHOOSE i \in DOMAIN inv : inv[i].item = item].qty
    ELSE 0

\* inventory[item] = qty
inv_set(inv, item, qty) ==
    IF inv_has(inv, item)
    THEN [i \in DOMAIN inv |->
              IF inv[i].item = item THEN Entry(item, qty) ELSE inv[i]]
    ELSE Append(inv, Entry(item, qty))

\* inventory.pop(item, 0), as it leaves the dictionary
inv_pop(inv, item) == SelectSeq(inv, LAMBDA e : e.item # item)

\* sum(inventory.values())
inv_total(inv) == SumSeq([i \in DOMAIN inv |-> inv[i].qty])

\* Skill(id, name, cooldown, last_used, power)
Skill(id, cd, pw) ==
    [id |-> id, cooldown |-> cd, last_used |-> 0, power |-> pw]

\* the skill argument of calculate_damage left out
NoSkill == [given |-> FALSE, power |-> 0]
Given(skill) == [given |-> TRUE, power |-> skill.power]

\* Skill.ready
ready(skill, now) == now - skill.last_used >= skill.cooldown

\* Player.use_skill: [player, ok]
use_skill(p, skill_id, now) ==
    IF skill_id \notin DOMAIN p.skills
    THEN [player |-> p, ok |-> FALSE]
    ELSE IF ready(p.skills[skill_id], now)
    THEN [player |-> [p EXCEPT !.skills[skill_id].last_used = now],
          ok |-> TRUE]
    ELSE [player |-> p, ok |-> FALSE]

\* Player.heal
heal(p, amount) == [p EXCEPT !.hp = Min(p.max_hp, p.hp + amount)]

\* Player.add_item
add_item(p, item, qty) ==
    [p EXCEPT !.inventory = inv_set(@, item, inv_get(@, item) + qty)]

\* Enemy(id, name, hp, pos, loot_table)
Enemy(hp, pos, loot) == [hp |-> hp, pos |-> pos, loot_table |-> loot]

is_alive(e) == e.hp > 0

calculate_damage_Floor(attacker, defender_hp, skill) ==
    Max(1, attacker.attack + (IF skill.given THEN skill.power ELSE 0)
               - (defender_hp \div 100))

\* CombatEngine.calculate_damage; int(defender_hp * 0.01) drops the fraction
calculate_damage(attacker, defender_hp, skill) ==
    LET base == attacker.attack + (IF skill.given THEN skill.power ELSE 0)
    IN  Max(1, base - IntTrunc(defender_hp, 100))

\* CombatEngine.attack: [attacker, enemy, dmg, used]
attack(attacker, enemy, now) ==
    LET has == "basic" \in DOMAIN attacker.skills
        skill == attacker.skills["basic"]
        u == use_skill(attacker, skill.id, now)
        used == has /\ u.ok
        dmg == IF used THEN calculate_damage(attacker, enemy.hp, Given(skill))
               ELSE calculate_damage(attacker, enemy.hp, NoSkill)
    IN  [attacker |-> IF used THEN u.player ELSE attacker,
         enemy |-> [enemy EXCEPT !.hp = Max(0, enemy.hp - dmg)],
         dmg |-> dmg,
         used |-> used]

\* astar as one call: the while loop run to its return
RECURSIVE astar_loop(_, _, _, _)
astar_loop(width, height, goal, st) ==
    IF st.open_set = {} THEN NoPath
    ELSE LET e == heappop(st.open_set)
             current == e[2]
         IN  IF current = goal
             THEN Path(reconstruct(st.came_from, current))
             ELSE astar_loop(width, height, goal,
                             relax(width, height, goal, current,
                                   neighbors(current), 1,
                                   Search(st.open_set \ {e}, st.came_from,
                                          st.g_score)))

astar(width, height, from, goal) ==
    IF ~InBounds(width, height, goal) THEN NoPath
    ELSE astar_loop(width, height, goal,
                    Search({<<0, from>>}, Put(EmptyMap, from, NoPos),
                           Put(EmptyMap, from, 0)))

\* GridMap.get_enemies_near: the indices of the enemies found, in list order
get_enemies_near(es, pos, radius) ==
    SelectSeq([i \in DOMAIN es |-> i],
              LAMBDA i : /\ Abs(es[i].pos[1] - pos[1]) <= radius
                         /\ Abs(es[i].pos[2] - pos[2]) <= radius
                         /\ is_alive(es[i]))

\* AutoPlayController.find_target: an index into the enemies, 0 for None
find_target(p, es) ==
    LET nearby == get_enemies_near(es, p.pos.at, 6)
    IN  IF nearby # <<>> THEN nearby[1] ELSE 0

\* AutoPlayController.go_to, of a player whose pos is set: the player walks
\* the path to its end
go_to(p, pos) ==
    LET path == astar(GridWidth, GridHeight, p.pos.at, pos)
    IN  IF path.none \/ path.path = <<>> THEN p
        ELSE [p EXCEPT !.pos = At(path.path[Len(path.path)])]

\* AutoPlayController.collect_loot
RECURSIVE collect_loot(_, _, _)
collect_loot(p, loot, i) ==
    IF i > Len(loot) THEN p
    ELSE collect_loot(add_item(p, loot[i].item, loot[i].qty), loot, i + 1)

\* AutoPlayController.auto_heal
auto_heal(p) ==
    IF 10 * p.hp < 3 * Max(1, p.max_hp)
    THEN LET potions == inv_get(p.inventory, hp_potion_name)
         IN  IF potions > 0
             THEN heal([p EXCEPT !.inventory =
                                   inv_set(@, hp_potion_name, potions - 1)],
                       (4 * p.max_hp) \div 10)
             ELSE p
    ELSE p

inventory_full(p) == inv_total(p.inventory) >= inventory_capacity

potions_empty(p) == inv_get(p.inventory, hp_potion_name) <= 0

\* AutoPlayController.village_actions, from the i-th key of the snapshot
\* list(inventory.keys()) on: [player, raised]
RECURSIVE village_actions(_, _, _)
village_actions(p, keys, i) ==
    IF i > Len(keys) THEN [player |-> p, raised |-> FALSE]
    ELSE IF keys[i] = hp_potion_name THEN village_actions(p, keys, i + 1)
    ELSE
        LET qty == inv_get(p.inventory, keys[i])
            popped == [p EXCEPT !.inventory = inv_pop(@, keys[i])]
        IN  IF qty = 0 THEN village_actions(popped, keys, i + 1)
            ELSE IF ~p.gold.set THEN [player |-> popped, raised |-> TRUE]
            ELSE village_actions([popped EXCEPT !.gold.amount = @ + qty],
                                 keys, i + 1)

\* AutoPlayController.refill_potions: [player, raised]
refill_potions(p) ==
    LET cur == inv_get(p.inventory, hp_potion_name)
        need == Max(0, potion_refill_amount - cur)
    IN  IF need <= 0 THEN [player |-> p, raised |-> FALSE]
        ELSE IF ~p.gold.set THEN [player |-> p, raised |-> TRUE]
        ELSE IF p.gold.amount >= need
        THEN [player |-> [p EXCEPT !.gold.amount = @ - need,
                                   !.inventory =
                                       inv_set(@, hp_potion_name, cur + need)],
              raised |-> FALSE]
        ELSE [player |-> p, raised |-> FALSE]

\* AutoPlayController.return_to_village: [player, raised]; its first line
\* reads player.pos
return_to_village(p, village_pos) ==
    LET origin == p.pos.at
        there == go_to(p, village_pos)
        sold == village_actions(there,
                                [i \in DOMAIN there.inventory |->
                                     there.inventory[i].item], 1)
        filled == refill_potions(sold.player)
    IN  IF ~p.pos.set THEN [player |-> p, raised |-> TRUE]
        ELSE IF sold.raised THEN sold
        ELSE IF filled.raised THEN filled
        ELSE [player |-> go_to(filled.player, origin), raised |-> FALSE]

\* what a call did: the calls it made and the damage it dealt
Did(op, p, es) ==
    [op |-> op, player |-> p, enemies |-> es, village |-> FALSE,
     hunted |-> FALSE, target |-> 0, moved |-> FALSE, attacked |-> FALSE,
     used |-> FALSE, dmg |-> 0, looted |-> FALSE, raised |-> FALSE]

\* AutoPlayController.auto_hunt; find_target reads player.pos
auto_hunt(p, es, now) ==
    LET t == find_target(p, es)
        near == go_to(p, es[t].pos)
        hit == attack(near, es[t], now)
        dead == ~is_alive(hit.enemy)
    IN  IF ~p.pos.set
        THEN [Did("tick", p, es) EXCEPT !.hunted = TRUE, !.raised = TRUE]
        ELSE IF t = 0 THEN [Did("tick", p, es) EXCEPT !.hunted = TRUE]
        ELSE [Did("tick",
                  IF dead THEN collect_loot(hit.attacker,
                                            hit.enemy.loot_table, 1)
                  ELSE hit.attacker,
                  [es EXCEPT ![t] = hit.enemy])
                 EXCEPT !.hunted = TRUE, !.target = t, !.moved = TRUE,
                        !.attacked = TRUE, !.used = hit.used,
                        !.dmg = hit.dmg, !.looted = dead]

tick_NoVillage(p, es, state, now) ==
    IF state = "aggressive" THEN auto_hunt(auto_heal(p), es, now)
    ELSE Did("tick", auto_heal(p), es)

\* AutoPlayController.tick
tick(p, es, state, now) ==
    LET healed == auto_heal(p)
        back == return_to_village(healed, VillagePos)
    IN  IF inventory_full(healed) \/ potions_empty(healed)
        THEN [Did("tick", back.player, es)
                 EXCEPT !.village = TRUE, !.raised = back.raised]
        ELSE IF state = "aggressive" THEN auto_hunt(healed, es, now)
        ELSE Did("tick", healed, es)

\* the skills of sample_player
SampleSkills ==
    [k \in {"basic", "heavy"} |->
         IF k = "basic" THEN Skill("basic", 1, 10) ELSE Skill("heavy", 5, 30)]

\* the players the simulation starts from: sample_player's figures scaled,
\* with the basic skill registered under its own id, under another id, or
\* missing
SkillTables ==
    {SampleSkills,
     [k \in {"basic"} |-> Skill("strike", 1, 10)],
     [k \in {} |-> Skill("basic", 1, 10)]}

Inventories ==
    {<<>>,
     <<Entry("hp_potion", 1)>>,
     <<Entry("hp_potion", 2)>>,
     <<Entry("coin", inventory_capacity - 1), Entry("hp_potion", 1)>>,
     <<Entry("hp_potion", 2), Entry("coin", inventory_capacity - 2)>>,
     <<Entry("hp_potion", 1), Entry("coin", 1),
       Entry("fur", inventory_capacity - 2)>>}

Golds == {[set |-> FALSE, amount |-> 0], [set |-> TRUE, amount |-> 1]}

\* the players: placed on the grid by the caller, or as sample_player
\* returns them, without pos and gold
Players ==
    [hp : {2, 10}, max_hp : {10}, attack : {1, 10}, pos : {At(<<1, 1>>)},
     skills : SkillTables, inventory : Inventories, gold : Golds]
    \cup
    [hp : {2, 10}, max_hp : {10}, attack : {10}, pos : {Nowhere},
     skills : {SampleSkills}, inventory : Inventories,
     gold : {[set |-> FALSE, amount |-> 0]}]

\* the enemies on the grid: one near death, and one whose hit points are
\* large, or below zero as the constructor allows
EnemyLists ==
    {<<Enemy(5, <<2, 3>>, <<Entry("coin", 1)>>), Enemy(h, <<3, 1>>, <<>>)>> :
         h \in {130, 0 - 150}}

PlayInit ==
    /\ sim_now = SimStart
    /\ player \in Players
    /\ enemies \in EnemyLists
    /\ ai_state = "aggressive"
    /\ klast = Did("init", player, enemies)
    /\ sim_calls = 0

PlayParked ==
    /\ sim_now = SimStart
    /\ player = [hp |-> 10, max_hp |-> 10, attack |-> 10, pos |-> Nowhere,
                 skills |-> [k \in {} |-> Skill("basic", 1, 10)],
                 inventory |-> <<>>, gold |-> [set |-> FALSE, amount |-> 0]]
    /\ enemies = <<>>
    /\ ai_state = "parked"
    /\ klast = Did("parked", player, enemies)
    /\ sim_calls = 0

\* one tick of the controller
Tick ==
    LET r == tick(player, enemies, ai_state, sim_now)
    IN  /\ ai_state \in AIStates
        /\ sim_calls < MaxSimCalls
        /\ sim_calls' = sim_calls + 1
        /\ player' = r.player
        /\ enemies' = r.enemies
        /\ klast' = [r EXCEPT !.player = player, !.enemies = enemies]
        /\ UNCHANGED <<sim_now, ai_state>>
        /\ UNCHANGED playRest

\* CombatEngine.attack called on an enemy of the grid
Attack(i) ==
    LET r == attack(player, enemies[i], sim_now)
    IN  /\ ai_state \in AIStates
        /\ sim_calls < MaxSimCalls
        /\ sim_calls' = sim_calls + 1
        /\ player' = r.attacker
        /\ enemies' = [enemies EXCEPT ![i] = r.enemy]
        /\ klast' = [Did("attack", player, enemies)
                        EXCEPT !.target = i, !.attacked = TRUE,
                               !.used = r.used, !.dmg = r.dmg]
        /\ UNCHANGED <<sim_now, ai_state>>
        /\ UNCHANGED playRest

\* the caller sets the AI state
SetState(s) ==
    /\ ai_state \in AIStates
    /\ ai_state # s
    /\ ai_state' = s
    /\ klast' = Did("state", player, enemies)
    /\ UNCHANGED <<sim_now, player, enemies, sim_calls>>
    /\ UNCHANGED playRest

\* time passes
SimClock ==
    /\ ai_state \in AIStates
    /\ sim_now < MaxSimTime
    /\ sim_now' = sim_now + 1
    /\ klast' = Did("clock", player, enemies)
    /\ UNCHANGED <<player, enemies, ai_state, sim_calls>>
    /\ UNCHANGED playRest

PlayNext ==
    \/ Tick
    \/ \E i \in DOMAIN enemies : Attack(i)
    \/ \E s \in AIStates : SetState(s)
    \/ SimClock

----------------------------------------------------------------------------
(* get_enabled_combo_sets under every configuration of three combos and a  *)
(* short COMBO_PRIORITY.                                                   *)

MaxPriority == 3

ConfiguredNames == <<"A", "B", "C">>

\* a combo's enabled entry: true, false or left out
FlagChoices == {"on", "off", "unset"}

ConfiguredCombo(name, flag) ==
    IF flag = "unset" THEN [name |-> name]
    ELSE [name |-> name, enabled |-> (flag = "on")]

ComboConfigs ==
    {[i \in DOMAIN ConfiguredNames |-> ConfiguredCombo(ConfiguredNames[i], f[i])] :
         f \in [DOMAIN ConfiguredNames -> FlagChoices]}

\* the entries of COMBO_PRIORITY: below, inside and above every range
PriorityIndexes == (0 - 1)..Len(ConfiguredNames)

PriorityConfigs ==
    {NoPriority} \cup
    {Priority(o) : o \in UNION {[1..n -> PriorityIndexes] : n \in 0..MaxPriority}}

PrioInit ==
    /\ file_combo_sets \in ComboConfigs
    /\ file_combo_priority \in PriorityConfigs
    /\ combo_ret = <<>>
    /\ combo_pc = "call"

PrioParked ==
    /\ file_combo_sets = <<>>
    /\ file_combo_priority = NoPriority
    /\ combo_ret = <<>>
    /\ combo_pc = "parked"

GetEnabledComboSets ==
    /\ combo_pc = "call"
    /\ combo_ret' = enabled_combo_sets(file_combo_sets, file_combo_priority)
    /\ combo_pc' = "done"
    /\ UNCHANGED <<file_combo_sets, file_combo_priority>>
    /\ UNCHANGED prioRest

PrioNext ==
    \/ GetEnabledComboSets

----------------------------------------------------------------------------
(* skill_combo_config.py: validate_combo_set and validate_configuration.   *)
(* A Python value is a record tagged with its kind, so that a value of the *)
(* wrong type can be passed where the code expects a string or a number.   *)

MaxCombos == 2

Str(s) == [kind |-> "str", s |-> s]
Num(n) == [kind |-> "num", n |-> n]
List(items) == [kind |-> "list", items |-> items]
NoneValue == [kind |-> "none"]
\* a key the dictionary does not hold
Missing == [kind |-> "missing"]

\* a combo dictionary by the entries the validation reads
Dict(skills, cd, delay) ==
    [kind |-> "dict", skills |-> skills, cooldown |-> cd,
     delay_between_skills |-> delay]

\* how a call ends: (is_valid, message), or an exception
Verdict(valid, msg) == [raised |-> FALSE, valid |-> valid, msg |-> msg]
Raises(what) == [raised |-> TRUE, valid |-> FALSE, msg |-> what]

\* the loop over combo['skills'], from its i-th element on: the result that
\* ends the function, or Verdict(TRUE, "") to go on
RECURSIVE validate_skills(_, _, _)
validate_skills(items, i, cooldowns) ==
    IF i > Len(items) THEN Verdict(TRUE, "")
    ELSE IF items[i].kind # "str" THEN Raises("AttributeError")
    ELSE IF Lower(items[i].s) \notin DOMAIN cooldowns
    THEN Verdict(FALSE, "Unknown skill keybind")
    ELSE validate_skills(items, i + 1, cooldowns)

\* 'key' in combo and combo['key'] < 0
negative_entry(v) ==
    IF v.kind = "missing" THEN Verdict(FALSE, "")
    ELSE IF v.kind # "num" THEN Raises("TypeError")
    ELSE Verdict(v.n < 0, "")

validate_combo_set(combo, cooldowns) ==
    IF combo.kind # "dict" THEN Verdict(FALSE, "Combo must be a dictionary")
    ELSE IF combo.skills.kind = "missing"
    THEN Verdict(FALSE, "Combo missing 'skills' field")
    ELSE IF combo.skills.kind # "list" \/ Len(combo.skills.items) = 0
    THEN Verdict(FALSE, "Combo 'skills' must be a non-empty list")
    ELSE
        LET listed == validate_skills(combo.skills.items, 1, cooldowns)
            cd == negative_entry(combo.cooldown)
            delay == negative_entry(combo.delay_between_skills)
        IN  IF listed.raised \/ ~listed.valid THEN listed
            ELSE IF cd.raised THEN cd
            ELSE IF cd.valid
            THEN Verdict(FALSE, "Combo cooldown cannot be negative")
            ELSE IF delay.raised THEN delay
            ELSE IF delay.valid
            THEN Verdict(FALSE, "Delay between skills cannot be negative")
            ELSE Verdict(TRUE, "")

\* the second loop of validate_configuration, from the i-th combo on, errors
\* telling whether the list of errors holds any; the message of an invalid
\* combo is built with combo.get, which only a dictionary has
RECURSIVE validate_combos(_, _, _, _)
validate_combos(combo_sets, i, cooldowns, errors) ==
    IF i > Len(combo_sets) THEN Verdict(~errors, "")
    ELSE
        LET v == validate_combo_set(combo_sets[i], cooldowns)
        IN  IF v.raised THEN v
            ELSE IF v.valid
            THEN validate_combos(combo_sets, i + 1, cooldowns, errors)
            ELSE IF combo_sets[i].kind # "dict" THEN Raises("AttributeError")
            ELSE validate_combos(combo_sets, i + 1, cooldowns, TRUE)

\* validate_configuration, of the SKILL_COOLDOWNS and COMBO_SETS given
validate_configuration(cooldowns, combo_sets) ==
    validate_combos(combo_sets, 1, cooldowns,
                    \E k \in DOMAIN cooldowns : cooldowns[k] < 0)

\* the values an entry of skills takes: keybinds configured and not, and an
\* integer written for a keybind
SkillLists ==
    {Missing, Str("1"), List(<<>>),
     List(<<Str("1")>>), List(<<Str("ALT+1"), Str("2")>>),
     List(<<Str("1"), Str("f5")>>), List(<<Num(1)>>),
     List(<<Str("f5"), Num(1)>>), List(<<Str("1"), Num(2)>>)}

CooldownEntries == {Missing, Num(0 - 1), Num(0), Num(5), NoneValue}
DelayEntries == {Missing, Num(0 - 1), Num(1), Str("0.5")}

\* the arguments of validate_combo_set
ComboValues ==
    {List(<<>>)} \cup
    {Dict(s, c, d) : s \in SkillLists, c \in CooldownEntries,
                     d \in DelayEntries}

\* the entries COMBO_SETS is built from
ComboSetEntries ==
    {List(<<>>),
     Dict(List(<<Str("1"), Str("2")>>), Num(5), Num(1)),
     Dict(List(<<Str("f5")>>), Missing, Missing),
     Dict(List(<<Num(1)>>), Missing, Missing),
     Dict(List(<<Str("1")>>), Num(0 - 1), Missing)}

CooldownTables ==
    {SKILL_COOLDOWNS, [SKILL_COOLDOWNS EXCEPT !["2"] = 0 - 1]}

NoCall == [op |-> "none", out |-> Verdict(FALSE, "")]

ValInit ==
    /\ val_cooldowns \in CooldownTables
    /\ val_combo_sets \in UNION {[1..n -> ComboSetEntries] : n \in 0..MaxCombos}
    /\ val_combo \in ComboValues
    /\ vlast = NoCall

ValParked ==
    /\ val_cooldowns = SKILL_COOLDOWNS
    /\ val_combo_sets = <<>>
    /\ val_combo = List(<<>>)
    /\ vlast = [op |-> "parked", out |-> Verdict(FALSE, "")]

ValidateComboSet ==
    /\ vlast.op # "parked"
    /\ vlast' = [op |-> "validate_combo_set",
                 out |-> validate_combo_set(val_combo, val_cooldowns)]
    /\ UNCHANGED <<val_cooldowns, val_combo_sets, val_combo>>
    /\ UNCHANGED valRest

ValidateConfiguration ==
    /\ vlast.op # "parked"
    /\ vlast' = [op |-> "validate_configuration",
                 out |-> validate_configuration(val_cooldowns, val_combo_sets)]
    /\ UNCHANGED <<val_cooldowns, val_combo_sets, val_combo>>
    /\ UNCHANGED valRest

ValNext ==
    \/ ValidateComboSet
    \/ ValidateConfiguration

----------------------------------------------------------------------------
(* roboflow_client.py: WorkflowClient.run_workflow_on_bytes, one statement *)
(* group per step.  Every call of the operating system and of the remote   *)
(* client either succeeds or raises.                                       *)

MaxWorkflowCalls == 3

\* how a call leaves the function: with the result, or with an exception
Left(path, how, unlinked) == [path |-> path, how |-> how, unlinked |-> unlinked]

finally_unlink_OnSuccess(files, path, pending, ok) ==
    IF ok /\ pending = "none" THEN files \ {path} ELSE files

\* the finally block: os.unlink(path), its exception swallowed
finally_unlink(files, path, pending, ok) ==
    IF ok THEN files \ {path} ELSE files

WfInit ==
    /\ wf_pc = "idle"
    /\ wf_path = 0
    /\ wf_files = {}
    /\ wf_pending = "none"
    /\ wf_last = Left(0, "none", FALSE)
    /\ wf_kept = {}
    /\ wf_calls = 0

WfParked ==
    /\ wf_pc = "parked"
    /\ wf_path = 0
    /\ wf_files = {}
    /\ wf_pending = "none"
    /\ wf_last = Left(0, "none", FALSE)
    /\ wf_kept = {}
    /\ wf_calls = 0

\* tempfile.mkstemp: a new file and its descriptor, or an exception that
\* leaves the function before the try block
Mkstemp(ok) ==
    /\ wf_pc = "idle"
    /\ wf_calls < MaxWorkflowCalls
    /\ wf_calls' = wf_calls + 1
    /\ IF ok
       THEN /\ wf_pc' = "try"
            /\ wf_path' = wf_calls + 1
            /\ wf_files' = wf_files \cup {wf_calls + 1}
            /\ UNCHANGED wf_last
       ELSE /\ wf_last' = Left(0, "mkstemp raised", FALSE)
            /\ UNCHANGED <<wf_pc, wf_path, wf_files>>
    /\ UNCHANGED <<wf_pending, wf_kept>>
    /\ UNCHANGED wfRest

\* os.close(fd) and the writing of the bytes
WriteBytes(ok) ==
    /\ wf_pc = "try"
    /\ wf_pc' = IF ok THEN "call" ELSE "finally"
    /\ wf_pending' = IF ok THEN "none" ELSE "write raised"
    /\ UNCHANGED <<wf_path, wf_files, wf_last, wf_kept, wf_calls>>
    /\ UNCHANGED wfRest

\* self.client.run_workflow
RunWorkflow(ok) ==
    /\ wf_pc = "call"
    /\ wf_pc' = "finally"
    /\ wf_pending' = IF ok THEN "none" ELSE "workflow raised"
    /\ UNCHANGED <<wf_path, wf_files, wf_last, wf_kept, wf_calls>>
    /\ UNCHANGED wfRest

\* the finally block, and the function left
FinallyUnlink(ok) ==
    /\ wf_pc = "finally"
    /\ wf_files' = finally_unlink(wf_files, wf_path, wf_pending, ok)
    /\ wf_kept' = IF ok THEN wf_kept ELSE wf_kept \cup {wf_path}
    /\ wf_last' = Left(wf_path,
                       IF wf_pending = "none" THEN "returned" ELSE wf_pending,
                       ok)
    /\ wf_pc' = "idle"
    /\ wf_path' = 0
    /\ wf_pending' = "none"
    /\ UNCHANGED wf_calls
    /\ UNCHANGED wfRest

WfNext ==
    \/ \E ok \in BOOLEAN : Mkstemp(ok)
    \/ \E ok \in BOOLEAN : WriteBytes(ok)
    \/ \E ok \in BOOLEAN : RunWorkflow(ok)
    \/ \E ok \in BOOLEAN : FinallyUnlink(ok)

-----------------------------------------------------------------------------
(* utils.py, resize_keep_aspect: the frame is scaled so that its longer     *)
(* side is at most target_max.  An image is its width and height; the       *)
(* pixels play no part in the sizes.                                        *)

MaxDim == 23

Dims == 1..MaxDim

\* scale = min(target_max / max(w, h), 1.0) and int(x * scale) are computed
\* in binary64.  For integers below 2^53 the quotient is 1.0 exactly when
\* target_max >= max(w, h); the truncated product is the integer quotient
\* x * target_max \div max(w, h), except where the rounded product falls
\* just below a whole number.  ShortProducts lists those <<x, longer,
\* target_max>> with longer <= 26: 22 * (15 / 22) = 14.999999999999998.
ShortProducts == {<<22, 22, 15>>, <<23, 23, 13>>, <<26, 26, 15>>}

int_times_scale(x, longer, target) ==
    IF <<x, longer, target>> \in ShortProducts
    THEN (x * target) \div longer - 1
    ELSE (x * target) \div longer

SameImage(width, height) ==
    [raised |-> FALSE, same |-> TRUE, w |-> width, h |-> height]
NewImage(width, height) ==
    [raised |-> FALSE, same |-> FALSE, w |-> width, h |-> height]
Cv2Error == [raised |-> TRUE, same |-> FALSE, w |-> 0, h |-> 0]

\* cv2.resize(image, (new_w, new_h)): a dsize with a component that is not
\* positive is empty, the factors fx and fy are 0, and the call raises
\* cv2.error.
cv2_resize(new_w, new_h) ==
    IF new_w <= 0 \/ new_h <= 0 THEN Cv2Error ELSE NewImage(new_w, new_h)

resize_keep_aspect(width, height, target) ==
    LET longer == Max(width, height)
    IN  IF target >= longer
        THEN SameImage(width, height)
        ELSE cv2_resize(int_times_scale(width, longer, target),
                        int_times_scale(height, longer, target))

NotResized == [raised |-> FALSE, same |-> FALSE, w |-> 0, h |-> 0]

RzInit ==
    /\ rz_w \in Dims
    /\ rz_h \in Dims
    /\ rz_target \in Dims
    /\ rz_out = NotResized
    /\ rz_pc = "call"

RzParked ==
    /\ rz_w = 0
    /\ rz_h = 0
    /\ rz_target = 0
    /\ rz_out = NotResized
    /\ rz_pc = "parked"

ResizeKeepAspect ==
    /\ rz_pc = "call"
    /\ rz_out' = resize_keep_aspect(rz_w, rz_h, rz_target)
    /\ rz_pc' = "done"
    /\ UNCHANGED <<rz_w, rz_h, rz_target>>
    /\ UNCHANGED rzRest

RzNext == ResizeKeepAspect

-----------------------------------------------------------------------------
(* plan_and_execute call by call: the detection thread makes the calls of  *)
(* one cycle (focus_window, double_click_at, tap_key, time.sleep) one      *)
(* after the other, and the GUI thread may call set_enabled between any    *)
(* two of them.  The planner's clock counts seconds; the time inside a     *)
(* call is counted in hundredths of a second, over the sleeps of the       *)
(* planner, of focus_window and of tap_key.  double_click_at and tap_key   *)
(* are the names action_planner imports: a call of either returns or       *)
(* raises.  focus_window catches whatever it meets.                        *)

MaxFlights == 2
MaxToggles == 2
MaxFaults == 1

\* hundredths of a second in a second
PerSecond == 100

POST_CLICK_DELAY_MIN == 50
POST_CLICK_DELAY_MAX == 120
POST_MOVEMENT_DELAY_MIN == 30
POST_MOVEMENT_DELAY_MAX == 80
TURN_70_DEGREES_MIN == 100
TURN_70_DEGREES_MAX == 180

\* get_key_hold_duration: max(0.1, base + base * 0.25 * uniform(-1, 1)) with
\* base in 0.4 .. 1.2: the two ends, 0.4 * 0.75 and 1.2 * 1.25
KEY_HOLD_SHORTEST == 30
KEY_HOLD_LONGEST == 150

get_post_click_delay == Samples(POST_CLICK_DELAY_MIN, POST_CLICK_DELAY_MAX)
get_post_movement_delay == Samples(POST_MOVEMENT_DELAY_MIN, POST_MOVEMENT_DELAY_MAX)
get_turn_70_degrees_duration == Samples(TURN_70_DEGREES_MIN, TURN_70_DEGREES_MAX)
get_key_hold_duration == Samples(KEY_HOLD_SHORTEST, KEY_HOLD_LONGEST)

\* focus_window: time.sleep(0.02) and time.sleep(0.15)
FocusTime == 17

\* tap_key: ahk.send presses and releases at once; the SendInput path
\* sleeps 0.01 s between the key-down and the key-up event
tap_gap(ahk) == IF ahk THEN 0 ELSE 1

\* a call the cycle makes: op is "focus", "click", "tap", "sleep" or "lock";
\* guarded says that the call stands inside a try block of plan_and_execute
Ins(op, key, dur, pos, guarded, det) ==
    [op |-> op, key |-> key, dur |-> dur, pos |-> pos, guarded |-> guarded,
     det |-> det]

Focus == Ins("focus", "", 0, NoClick, FALSE, NoneDet)
Click(pos) == Ins("click", "", 0, pos, TRUE, NoneDet)
Tap(key, guarded) == Ins("tap", key, 0, NoClick, guarded, NoneDet)
time_sleep(dur, guarded) == Ins("sleep", "", dur, NoClick, guarded, NoneDet)
Lock(det) == Ins("lock", "", 0, NoClick, FALSE, det)

\* what a call left behind: kind is "focus", "click", "down", "up", "sleep"
Ev(kind, key, at, dur, pos) ==
    [kind |-> kind, key |-> key, at |-> at, dur |-> dur, pos |-> pos]

\* the key of the i-th random.random() < 0.5 of a macro
TurnKey(turn, i) ==
    IF turn = {"a", "d"} THEN (IF i % 2 = 0 THEN "a" ELSE "d")
    ELSE IF turn = {"d"} THEN "d" ELSE "a"

\* while time.time() < end_time of forward_zigzag
RECURSIVE zigzag(_, _, _, _, _)
zigzag(t, end_time, i, turn, gap) ==
    IF t >= end_time THEN <<>>
    ELSE <<Tap("w", FALSE), time_sleep(30, FALSE), Tap(TurnKey(turn, i), FALSE),
           time_sleep(10, FALSE)>>
         \o zigzag(t + 2 * gap + 40, end_time, i + 1, turn, gap)

\* while time.time() < end_time of circle_left and circle_right
RECURSIVE circle(_, _, _, _)
circle(t, end_time, key, gap) ==
    IF t >= end_time THEN <<>>
    ELSE <<Tap("w", FALSE), Tap(key, FALSE), time_sleep(20, FALSE)>>
         \o circle(t + 2 * gap + 20, end_time, key, gap)

\* _execute_movement_macro(pattern, duration): no call of it is guarded
movement_macro(pattern, duration, turn, gap, post) ==
    <<Focus>>
    \o (CASE pattern = "forward" -> <<Tap("w", FALSE), time_sleep(duration, FALSE)>>
          [] pattern = "forward_zigzag" -> zigzag(0, duration, 0, turn, gap)
          [] pattern = "circle_left" -> circle(0, duration, "a", gap)
          [] pattern = "circle_right" -> circle(0, duration, "d", gap)
          [] pattern = "backup_turn" ->
                <<Tap("s", FALSE), time_sleep(duration \div 2, FALSE),
                  Tap(TurnKey(turn, 0), FALSE), time_sleep(duration \div 2, FALSE)>>
          [] pattern = "strafe_left" -> <<Tap("a", FALSE), time_sleep(duration, FALSE)>>
          [] pattern = "strafe_right" -> <<Tap("d", FALSE), time_sleep(duration, FALSE)>>
          [] OTHER -> <<>>)
    \o <<time_sleep(post, FALSE)>>

\* abs(ndx) > turn_thr_70deg of the dot steered to
big_turn(dots, window_rect) ==
    LET c == center_of(BestDot(dots, window_rect[3], window_rect[4]))
    IN  100 * Abs(2 * c[1] - window_rect[3]) > 30 * Max(2, window_rect[3])

\* the hold duration of a steering cycle; d holds the values drawn
steer_hold(dots, window_rect, d) ==
    IF big_turn(dots, window_rect) THEN d.turn70 ELSE d.hold

\* the calls of a cycle past the gates, q being what act answers
program(q, detections, window_rect, d, gap) ==
    LET dots == find_map_dots(detections)
        key == IF q.out.keys = {} THEN "" ELSE CHOOSE k \in q.out.keys : TRUE
    IN  CASE q.out.branch = "attack" ->
               <<Focus, Focus, Click(q.out.click), time_sleep(d.post_click, TRUE)>>
               \o (IF q.p.target_locked # NoneDet
                   THEN <<Lock(q.p.target_locked)>> ELSE <<>>)
          [] q.out.branch = "locked" -> <<Focus, Click(q.out.click)>>
          [] q.out.branch = "macro" ->
               movement_macro(q.p.current_movement_pattern,
                              Min(2 * PerSecond,
                                  q.p.movement_pattern_duration * PerSecond),
                              d.turn, gap, d.post_move)
          [] q.out.branch = "steer" ->
               <<Focus>>
               \o (IF key = "" THEN <<>>
                   ELSE <<Focus, Tap(key, TRUE),
                          time_sleep(steer_hold(dots, window_rect, d), TRUE),
                          time_sleep(d.post_move, TRUE)>>)
          [] OTHER -> <<>>

\* the rest of a try block is skipped once a call inside it has raised
RECURSIVE except_Exception(_)
except_Exception(prog) ==
    IF prog = <<>> \/ ~Head(prog).guarded THEN prog
    ELSE except_Exception(Tail(prog))

\* a call of the cycle that returns: [t, events, p]
returns(ins, t, events, p, gap) ==
    CASE ins.op = "focus" ->
           [t |-> t + FocusTime, p |-> p,
            events |-> Append(events, Ev("focus", "", t, FocusTime, NoClick))]
      [] ins.op = "click" ->
           [t |-> t, p |-> p,
            events |-> Append(events, Ev("click", "", t, 0, ins.pos))]
      [] ins.op = "tap" ->
           [t |-> t + gap, p |-> p,
            events |-> events \o <<Ev("down", ins.key, t, 0, NoClick),
                                   Ev("up", ins.key, t + gap, 0, NoClick)>>]
      [] ins.op = "sleep" ->
           [t |-> t + ins.dur, p |-> p,
            events |-> Append(events, Ev("sleep", "", t, ins.dur, NoClick))]
      [] OTHER ->
           [t |-> t, p |-> [p EXCEPT !.target_locked = ins.det],
            events |-> events]

\* the calls that remain after one has returned
remaining_Interruptible(prog, p) == IF p.enabled THEN Tail(prog) ELSE <<>>

remaining(prog, p) == Tail(prog)

\* the frames of the cycle: nothing, a mob with its health bar, the health
\* bar alone, a dot far to the right, a dot ahead, a dot slightly to the right
DotAhead == DetAt("map_dot", <<98, 8, 4, 4>>, 90)
DotSlight == DetAt("map_dot", <<118, 48, 4, 4>>, 90)

CyFrames ==
    {<<>>, <<MobA, HealthA>>, <<HealthA>>, <<DotRight>>, <<DotAhead>>,
     <<DotSlight>>}

\* the time from one call of plan_and_execute to the next: longer than the
\* sleeps of any cycle, and than the idle check interval
CyStep == IDLE_CHECK_INTERVAL + 1

CyGateDraws ==
    {GateDraw(i, IDLE_DURATION_MIN, ACTION_COOLDOWN_MIN, WARMUP_EXTRA_DELAY_MIN) :
        i \in should_idle}

\* the draws of act: a pattern that is renewed is drawn with the longest
\* duration
CyActDraws(p, now, detections, g) ==
    {a \in ActDraws(p, now, detections, TargetWindow, g) :
        a.pattern_duration \in {MOVEMENT_PATTERN_MIN, MOVEMENT_PATTERN_MAX}
        /\ (a.change => a.pattern_duration = MOVEMENT_PATTERN_MAX)}

CyDraw(post_click, post_move, hold, turn70, turn) ==
    [post_click |-> post_click, post_move |-> post_move, hold |-> hold,
     turn70 |-> turn70, turn |-> turn]

\* the delays drawn that the branch taken makes use of
CyDraws(q, detections, window_rect, a) ==
    LET quiet == CyDraw(POST_CLICK_DELAY_MIN, POST_MOVEMENT_DELAY_MIN,
                        KEY_HOLD_SHORTEST, TURN_70_DEGREES_MIN, a.turn)
    IN  CASE q.out.branch = "attack" ->
               {[quiet EXCEPT !.post_click = c] : c \in get_post_click_delay}
          [] q.out.branch = "macro" ->
               {[quiet EXCEPT !.post_move = m] : m \in get_post_movement_delay}
          [] q.out.branch = "steer" /\ q.out.keys # {} ->
               IF big_turn(find_map_dots(detections), window_rect)
               THEN {[quiet EXCEPT !.post_move = m, !.turn70 = h] :
                        m \in get_post_movement_delay,
                        h \in get_turn_70_degrees_duration}
               ELSE {[quiet EXCEPT !.post_move = m, !.hold = h] :
                        m \in get_post_movement_delay,
                        h \in get_key_hold_duration}
          [] OTHER -> {quiet}

CyInitWith(pattern, duration, ahk) ==
    /\ cy_p = [enabled |-> TRUE, last_action |-> 0, target_locked |-> NoneDet,
               action_count |-> 0, last_idle_check |-> PlanStart,
               in_idle_state |-> FALSE, idle_until |-> 0,
               current_movement_pattern |-> pattern,
               movement_pattern_start |-> 0,
               movement_pattern_duration |-> duration]
    /\ cy_clock = PlanStart
    /\ cy_ahk = ahk
    /\ cy_pc = "idle"
    /\ cy_prog = <<>>
    /\ cy_t = 0
    /\ cy_events = <<>>
    /\ cy_branch = "init"
    /\ cy_raising = FALSE
    /\ cy_how = "none"
    /\ cy_errors = 0
    /\ cy_hold = 0
    /\ cy_late = FALSE
    /\ cy_faults = 0
    /\ cy_calls = 0
    /\ cy_toggles = 0

\* the planner as constructed, with the first pattern and the shortest
\* duration drawn
CyInit ==
    \E ahk \in BOOLEAN :
        CyInitWith(MOVEMENT_PATTERNS[1], MOVEMENT_PATTERN_MIN, ahk)

CyParked == CyInitWith("forward", MOVEMENT_PATTERN_MIN, FALSE)

\* plan_and_execute is entered: the enabled flag and the gates are passed
\* and the branch is chosen before the first input call
CyBegin(step, detections, g) ==
    /\ cy_pc = "idle"
    /\ cy_calls < MaxFlights
    /\ cy_calls' = cy_calls + 1
    /\ cy_pc' = "running"
    /\ cy_t' = 0
    /\ cy_events' = <<>>
    /\ cy_raising' = FALSE
    /\ cy_errors' = 0
    /\ cy_late' = FALSE
    /\ cy_clock' = cy_clock + step
    /\ \E now \in {cy_clock + step} :
       \E r \in {gates(cy_p, now, g)} :
           IF ~cy_p.enabled
           THEN /\ cy_branch' = "disabled"
                /\ cy_prog' = <<>>
                /\ cy_hold' = 0
                /\ cy_p' = cy_p
           ELSE IF r.branch # "pass"
           THEN /\ cy_branch' = r.branch
                /\ cy_prog' = <<>>
                /\ cy_hold' = 0
                /\ cy_p' = r.p
           ELSE \E a \in CyActDraws(cy_p, now, detections, g) :
                \E q \in {act(r.p, now, detections, TargetWindow, TargetWindow, a)} :
                \E d \in CyDraws(q, detections, TargetWindow, a) :
                   /\ cy_branch' = q.out.branch
                   /\ cy_prog' = program(q, detections, TargetWindow, d,
                                         tap_gap(cy_ahk))
                   /\ cy_hold' = IF q.out.branch = "steer" /\ q.out.keys # {}
                                 THEN steer_hold(find_map_dots(detections),
                                                 TargetWindow, d)
                                 ELSE 0
                   /\ cy_p' = IF q.out.branch = "attack" THEN r.p ELSE q.p
    /\ UNCHANGED <<cy_ahk, cy_how, cy_faults, cy_toggles>>
    /\ UNCHANGED cyRest

\* the next call of the running cycle returns
CyCall ==
    /\ cy_pc = "running"
    /\ cy_prog # <<>>
    /\ ~cy_raising
    /\ LET r == returns(Head(cy_prog), cy_t, cy_events, cy_p, tap_gap(cy_ahk))
       IN  /\ cy_t' = r.t
           /\ cy_events' = r.events
           /\ cy_p' = r.p
           /\ cy_prog' = remaining(cy_prog, cy_p)
    /\ cy_late' = (cy_late \/ (~cy_p.enabled /\ Head(cy_prog).op \in {"click", "tap"}))
    /\ UNCHANGED <<cy_clock, cy_ahk, cy_pc, cy_branch, cy_raising, cy_how,
                   cy_errors, cy_hold, cy_faults, cy_calls, cy_toggles>>
    /\ UNCHANGED cyRest

\* the next call of the running cycle, double_click_at or tap_key, raises:
\* inside a try block the error is logged and the cycle goes on behind the
\* block, outside one the exception leaves plan_and_execute
CyCallRaises ==
    /\ cy_pc = "running"
    /\ cy_prog # <<>>
    /\ ~cy_raising
    /\ Head(cy_prog).op \in {"click", "tap"}
    /\ cy_faults < MaxFaults
    /\ cy_faults' = cy_faults + 1
    /\ IF Head(cy_prog).guarded
       THEN /\ cy_errors' = cy_errors + 1
            /\ cy_prog' = except_Exception(Tail(cy_prog))
            /\ cy_raising' = FALSE
       ELSE /\ cy_errors' = cy_errors
            /\ cy_prog' = <<>>
            /\ cy_raising' = TRUE
    /\ UNCHANGED <<cy_p, cy_clock, cy_ahk, cy_pc, cy_t, cy_events, cy_branch,
                   cy_how, cy_hold, cy_late, cy_calls, cy_toggles>>
    /\ UNCHANGED cyRest

\* plan_and_execute is left, by return or by the exception
CyReturn ==
    /\ cy_pc = "running"
    /\ cy_prog = <<>>
    /\ cy_pc' = "idle"
    /\ cy_how' = IF cy_raising THEN "raised" ELSE "returned"
    /\ cy_raising' = FALSE
    /\ cy_t' = 0
    /\ cy_events' = <<>>
    /\ cy_errors' = 0
    /\ cy_hold' = 0
    /\ cy_late' = FALSE
    /\ UNCHANGED <<cy_p, cy_clock, cy_ahk, cy_prog, cy_branch, cy_faults,
                   cy_calls, cy_toggles>>
    /\ UNCHANGED cyRest

\* set_enabled on the GUI thread, at any point of the detection thread
CySetEnabled(value) ==
    /\ cy_toggles < MaxToggles
    /\ cy_toggles' = cy_toggles + 1
    /\ cy_p' = set_enabled(cy_p, value)
    /\ UNCHANGED <<cy_clock, cy_ahk, cy_pc, cy_prog, cy_t, cy_events, cy_branch,
                   cy_raising, cy_how, cy_errors, cy_hold, cy_late, cy_faults,
                   cy_calls>>
    /\ UNCHANGED cyRest

CyNext ==
    \/ \E detections \in CyFrames, g \in CyGateDraws :
          CyBegin(CyStep, detections, g)
    \/ CyCall
    \/ CyCallRaises
    \/ CyReturn
    \/ \E value \in BOOLEAN : CySetEnabled(value)

-----------------------------------------------------------------------------
(* The manager driven through try_execute_combos, try_execute_random_combo, *)
(* execute_single_skill and try_stealth_attack, by one thread or by two.    *)
(* A call checks readiness on entry and sends its keys afterwards, one      *)
(* execute_skill at a time, with the sleeps of execute_combo in between;    *)
(* the steps of two threads interleave.  COMBO_SETS is any configuration    *)
(* whose combos validate_combo_set accepts.                                 *)

MaxDrivenCalls == 3
MaxThreads == 2
DrivenTicks == 3

DrivenThreads == 1..MaxThreads

\* a combo that lists a skill twice, and one with a skill that is not
\* configured
TwiceCombo ==
    [name |-> "Twice", skills |-> <<"2", "2">>, cooldown |-> 4,
     delay_between_skills |-> 1, enabled |-> TRUE]
UnknownCombo ==
    [name |-> "Unknown", skills |-> <<"f5">>, cooldown |-> 4,
     delay_between_skills |-> 1, enabled |-> TRUE]

CandidateConfigs ==
    {<<COMBO_SETS[1]>>, <<COMBO_SETS[2]>>, <<TwiceCombo>>, <<UnknownCombo>>,
     <<COMBO_SETS[1], TwiceCombo>>}

\* the combo as the dictionary validate_combo_set is given
AsDict(combo) ==
    Dict(List([i \in DOMAIN combo.skills |-> Str(combo.skills[i])]),
         Num(combo.cooldown), Num(combo.delay_between_skills))

AcceptedConfigs ==
    {cfg \in CandidateConfigs :
        \A i \in DOMAIN cfg :
            LET v == validate_combo_set(AsDict(cfg[i]), SKILL_COOLDOWNS)
            IN  ~v.raised /\ v.valid}

\* get_ready_combos without its two checks
ready_combos_Unchecked(m, combo_sets) ==
    enabled_combo_sets(combo_sets, NoPriority)

\* get_ready_combos over the COMBO_SETS of the run
ready_combos(m, combo_sets) ==
    SelectSeq(enabled_combo_sets(combo_sets, NoPriority),
              LAMBDA c : is_combo_ready(m, c) /\ are_all_skills_ready(m, c.skills))

\* where a thread stands: pc is "idle", "combo" (inside execute_combo, about
\* to execute skill idx once its sleep is over) or "single" (inside
\* execute_single_skill, about to execute the skill picked)
\* seen holds the timestamps the thread's readiness checks read
Standing(pc, op, combo, idx, wake, skill, fallback, seen) ==
    [pc |-> pc, op |-> op, combo |-> combo, idx |-> idx, wake |-> wake,
     skill |-> skill, fallback |-> fallback, seen |-> seen]

Seen(m) == [skills |-> m.skills, combos |-> m.combos]

Resting ==
    Standing("idle", "none", NoCombo, 0, 0, "", FALSE,
             [skills |-> EmptyMap, combos |-> EmptyMap])

\* the timestamp of a key, 0 when there is none
StampOf(stamps, key) == IF key \in DOMAIN stamps THEN stamps[key] ELSE 0

\* the checks of execute_single_skill and its random.choice
single_checked(m, op) ==
    IF ~is_single_skill_ready(m) \/ available_single_skills(m) = <<>>
    THEN {Resting}
    ELSE {Standing("single", op, NoCombo, 0, 0, available_single_skills(m)[i], FALSE,
                      Seen(m)) :
             i \in DOMAIN available_single_skills(m)}

\* the checks of try_execute_random_combo and its random.choice
random_combo_checked(m, combo_sets, op, fallback) ==
    LET ready_now == ready_combos(m, combo_sets)
    IN  IF ready_now = <<>> THEN {Resting}
        ELSE {Standing("combo", op, ready_now[i], 1, 0, "", fallback, Seen(m)) :
                 i \in DOMAIN ready_now}

\* the checks of try_execute_combos
first_combo_checked(m, combo_sets, op) ==
    LET combos == enabled_combo_sets(combo_sets, NoPriority)
        i == FirstReady(m, combos, 1)
    IN  IF i = 0 THEN {Resting}
        ELSE {Standing("combo", op, combos[i], 1, 0, "", FALSE, Seen(m))}

\* try_stealth_attack up to its first key: the mode choose_actionable_mode
\* can return (every weight of ATTACK_MODE_WEIGHTS is positive), then the
\* checks of the mode; a combo that finds nothing ready_now falls back to
\* execute_single_skill when has_available_single_skill
stealth_checked(m, combo_sets, op) ==
    {Resting}
    \cup (IF has_available_single_skill(m) THEN single_checked(m, op) ELSE {})
    \cup (IF ready_combos(m, combo_sets) # <<>>
          THEN random_combo_checked(m, combo_sets, op, TRUE) ELSE {})

checked(m, combo_sets, op) ==
    CASE op = "try_execute_combos" -> first_combo_checked(m, combo_sets, op)
      [] op = "try_execute_random_combo" ->
            random_combo_checked(m, combo_sets, op, FALSE)
      [] op = "execute_single_skill" -> single_checked(m, op)
      [] OTHER -> stealth_checked(m, combo_sets, op)

DrivenOps ==
    {"try_execute_combos", "try_execute_random_combo", "execute_single_skill",
     "try_stealth_attack"}

\* a key sent while the timestamps say the skill is on cooldown
on_cooldown(m, skill) ==
    /\ Lower(skill) \in DOMAIN m.skills
    /\ m.now - m.skills[Lower(skill)] < get_skill_cooldown(Lower(skill))

\* a combo whose own cooldown has not expired
within_cooldown(m, combo) ==
    /\ combo.name \in DOMAIN m.combos
    /\ m.now - m.combos[combo.name] < ComboCooldownOf(combo)

DvInitWith(cfg, n) ==
    /\ dv_cfg = cfg
    /\ dv_n = n
    /\ dv_m = [now |-> StartTime, skills |-> EmptyMap, combos |-> EmptyMap,
               single |-> 0]
    /\ dv_th = [t \in DrivenThreads |-> Resting]
    /\ dv_unready = {}
    /\ dv_restarts = {}
    /\ dv_calls = 0

DvInit == \E cfg \in AcceptedConfigs, n \in DrivenThreads : DvInitWith(cfg, n)

DvParked == DvInitWith(<<>>, 1)

\* a thread enters one of the four methods and makes its readiness checks
DvBegin(t, op) ==
    /\ t <= dv_n
    /\ dv_th[t].pc = "idle"
    /\ dv_calls < MaxDrivenCalls
    /\ dv_calls' = dv_calls + 1
    /\ \E s \in checked(dv_m, dv_cfg, op) : dv_th' = [dv_th EXCEPT ![t] = s]
    /\ UNCHANGED <<dv_cfg, dv_n, dv_m, dv_unready, dv_restarts>>
    /\ UNCHANGED dvRest

\* the next execute_skill of execute_combo, and the sleep or the combo's
\* timestamp that follows it; a combo that fails inside try_stealth_attack
\* is followed by the single-skill fallback
DvComboSkill(t, raises, delay) ==
    LET s == dv_th[t]
        skill == s.combo.skills[s.idx]
        r == execute_skill(dv_m, skill, raises)
    IN  /\ s.pc = "combo"
        /\ dv_m.now >= s.wake
        /\ raises => InputMayRaise(skill)
        /\ delay \in get_randomized_delay(s.combo.delay_between_skills)
        /\ dv_restarts' = IF s.idx = 1 /\ within_cooldown(dv_m, s.combo)
                          THEN dv_restarts \cup
                               {[name |-> s.combo.name, by |-> t,
                                 checked |-> StampOf(s.seen.combos, s.combo.name),
                                 started |-> StampOf(dv_m.combos, s.combo.name)]}
                          ELSE dv_restarts
        /\ dv_unready' = IF r.ret /\ on_cooldown(dv_m, skill)
                         THEN dv_unready \cup {[skill |-> skill, by |-> t, op |-> s.op,
                                                combo |-> s.combo.name, idx |-> s.idx,
                                                checked |-> StampOf(s.seen.skills, Lower(skill)),
                                                sent |-> StampOf(dv_m.skills, Lower(skill))]}
                         ELSE dv_unready
        /\ IF ~r.ret
           THEN /\ dv_m' = r.m
                /\ \E f \in (IF s.fallback /\ has_available_single_skill(r.m)
                             THEN single_checked(r.m, s.op) ELSE {Resting}) :
                      dv_th' = [dv_th EXCEPT ![t] = f]
           ELSE IF s.idx < Len(s.combo.skills)
           THEN /\ dv_m' = r.m
                /\ dv_th' = [dv_th EXCEPT ![t].idx = s.idx + 1,
                                          ![t].wake = dv_m.now + delay]
           ELSE /\ dv_m' = MarkComboUsed(r.m, s.combo)
                /\ dv_th' = [dv_th EXCEPT ![t] = Resting]
        /\ UNCHANGED <<dv_cfg, dv_n, dv_calls>>
        /\ UNCHANGED dvRest

\* the execute_skill of execute_single_skill and the pooled timestamp
DvSingleSkill(t, raises) ==
    LET s == dv_th[t]
        r == execute_skill(dv_m, s.skill, raises)
    IN  /\ s.pc = "single"
        /\ raises => InputMayRaise(s.skill)
        /\ dv_unready' = IF r.ret /\ on_cooldown(dv_m, s.skill)
                         THEN dv_unready \cup {[skill |-> s.skill, by |-> t, op |-> s.op,
                                                combo |-> "none", idx |-> 0,
                                                checked |-> StampOf(s.seen.skills, Lower(s.skill)),
                                                sent |-> StampOf(dv_m.skills, Lower(s.skill))]}
                         ELSE dv_unready
        /\ dv_m' = IF r.ret THEN MarkSingleUsed(r.m) ELSE r.m
        /\ dv_th' = [dv_th EXCEPT ![t] = Resting]
        /\ UNCHANGED <<dv_cfg, dv_n, dv_restarts, dv_calls>>
        /\ UNCHANGED dvRest

\* the clock
DvTick ==
    /\ dv_m.now < StartTime + DrivenTicks
    /\ dv_m' = [dv_m EXCEPT !.now = dv_m.now + 1]
    /\ UNCHANGED <<dv_cfg, dv_n, dv_th, dv_unready, dv_restarts, dv_calls>>
    /\ UNCHANGED dvRest

DvNext ==
    \/ \E t \in DrivenThreads, op \in DrivenOps : DvBegin(t, op)
    \/ \E t \in DrivenThreads, raises \in BOOLEAN, delay \in 0..2 :
          DvComboSkill(t, raises, delay)
    \/ \E t \in DrivenThreads, raises \in BOOLEAN : DvSingleSkill(t, raises)
    \/ DvTick

-----------------------------------------------------------------------------
(* detection.py: Detector.start, Detector.stop and the loop threads.  A     *)
(* loop thread stands at the test of 'while self.running' ("test"), inside  *)
(* an iteration ("body") or has left _run_loop ("done").  start and stop    *)
(* are called from one thread; stop blocks in join(timeout=1.0) while the   *)
(* loop threads run on.                                                     *)

MaxDetectorCalls == 4
MaxIterations == 2

\* threads that have not left _run_loop
LoopThreads == {i \in DOMAIN dt_threads : dt_threads[i] # "done"}

DtInit ==
    /\ dt_running = FALSE
    /\ dt_thread = 0
    /\ dt_on_detect = 0
    /\ dt_threads = <<>>
    /\ dt_iters = <<>>
    /\ dt_pc = "idle"
    /\ dt_timeouts = 0
    /\ dt_calls = 0
    /\ dt_stale = {}

DtParked == DtInit

\* start(capture_rect, on_detect)
DetectorStart ==
    /\ dt_pc = "idle"
    /\ dt_calls < MaxDetectorCalls
    /\ dt_calls' = dt_calls + 1
    /\ IF dt_running
       THEN UNCHANGED <<dt_running, dt_thread, dt_on_detect, dt_threads, dt_iters>>
       ELSE /\ dt_running' = TRUE
            /\ dt_on_detect' = dt_calls + 1
            /\ dt_threads' = Append(dt_threads, "test")
            /\ dt_iters' = Append(dt_iters, 0)
            /\ dt_thread' = Len(dt_threads) + 1
    /\ UNCHANGED <<dt_pc, dt_timeouts, dt_stale>>
    /\ UNCHANGED dtRest

\* stop(): the flag is cleared and the caller enters join, if there is a
\* thread to join
DetectorStop ==
    /\ dt_pc = "idle"
    /\ dt_calls < MaxDetectorCalls
    /\ dt_calls' = dt_calls + 1
    /\ dt_running' = FALSE
    /\ dt_pc' = IF dt_thread # 0 THEN "joining" ELSE "idle"
    /\ UNCHANGED <<dt_thread, dt_on_detect, dt_threads, dt_iters, dt_timeouts,
                   dt_stale>>
    /\ UNCHANGED dtRest

\* join(timeout=1.0) returns: the thread has ended, or the second is over
\* and the thread is still inside its iteration
JoinReturns(timed_out) ==
    /\ dt_pc = "joining"
    /\ IF timed_out
       THEN dt_threads[dt_thread] = "body"
       ELSE dt_threads[dt_thread] = "done"
    /\ dt_pc' = "idle"
    /\ dt_timeouts' = IF timed_out THEN dt_timeouts + 1 ELSE dt_timeouts
    /\ UNCHANGED <<dt_running, dt_thread, dt_on_detect, dt_threads, dt_iters,
                   dt_calls, dt_stale>>
    /\ UNCHANGED dtRest

\* while self.running
LoopTest(i) ==
    /\ i \in DOMAIN dt_threads
    /\ dt_threads[i] = "test"
    /\ dt_running => dt_iters[i] < MaxIterations
    /\ dt_threads' = [dt_threads EXCEPT ![i] = IF dt_running THEN "body" ELSE "done"]
    /\ dt_iters' = [dt_iters EXCEPT ![i] = IF dt_running THEN @ + 1 ELSE @]
    /\ UNCHANGED <<dt_running, dt_thread, dt_on_detect, dt_pc, dt_timeouts,
                   dt_calls, dt_stale>>
    /\ UNCHANGED dtRest

\* one iteration: grab, detect, self.on_detect(...) when there is a primary
\* detection, sleep; an exception of the grab or of the detection ends the
\* thread
LoopBody(i, outcome) ==
    /\ i \in DOMAIN dt_threads
    /\ dt_threads[i] = "body"
    /\ dt_threads' = [dt_threads EXCEPT ![i] = IF outcome = "raises" THEN "done"
                                               ELSE "test"]
    /\ dt_stale' = IF outcome = "callback" /\ i # dt_thread
                   THEN dt_stale \cup {[thread |-> i, on_detect |-> dt_on_detect]}
                   ELSE dt_stale
    /\ UNCHANGED <<dt_running, dt_thread, dt_on_detect, dt_iters, dt_pc,
                   dt_timeouts, dt_calls>>
    /\ UNCHANGED dtRest

LoopOutcomes == {"callback", "nothing", "raises"}

DtNext ==
    \/ DetectorStart
    \/ DetectorStop
    \/ \E timed_out \in BOOLEAN : JoinReturns(timed_out)
    \/ \E i \in 1..MaxDetectorCalls : LoopTest(i)
    \/ \E i \in 1..MaxDetectorCalls, outcome \in LoopOutcomes : LoopBody(i, outcome)

-----------------------------------------------------------------------------
(* Map-dot steering as a function of the frame: one cycle of                *)
(* plan_and_execute past its gates, on a planner without a lock, with a     *)
(* frame that holds map dots and no mob.                                    *)

\* the corners of the dots: around the thresholds of 0.15 and 0.30 of the
\* half width (100) and of 0.12 of the half height (50), and far from them
DotXs == {30, 68, 69, 83, 84, 98, 113, 114, 128, 129, 180}
DotYs == {8, 41, 42, 48, 54, 55, 90}
DotWidths == {4, 5}

SteerDot(x, y, width) == Det("map_dot", x, y, width, 4, 90)

\* frames of one dot, and frames of two
SteerFrames ==
    {<<SteerDot(x, y, width)>> : x \in DotXs, y \in DotYs, width \in DotWidths}
    \cup {<<SteerDot(x1, 8, 4), SteerDot(x2, y2, 4)>> :
             x1 \in {30, 128}, x2 \in {98, 180}, y2 \in {8, 42, 90}}

\* the planner as constructed
NewPlanner ==
    [enabled |-> TRUE, last_action |-> 0, target_locked |-> NoneDet,
     action_count |-> 0, last_idle_check |-> PlanStart,
     in_idle_state |-> FALSE, idle_until |-> 0,
     current_movement_pattern |-> "forward",
     movement_pattern_start |-> 0,
     movement_pattern_duration |-> MOVEMENT_PATTERN_MIN]

SrInitWith(dots, d) ==
    /\ sr_dots = dots
    /\ sr_d = d
    /\ sr_pc = "frame"
    /\ sr_keys = {}
    /\ sr_prog = <<>>

SrInit ==
    \E dots \in SteerFrames, m \in get_post_movement_delay,
       h \in get_key_hold_duration, t70 \in get_turn_70_degrees_duration :
        SrInitWith(dots, CyDraw(POST_CLICK_DELAY_MIN, m, h, t70, {}))

SrParked ==
    SrInitWith(<<>>, CyDraw(POST_CLICK_DELAY_MIN, POST_MOVEMENT_DELAY_MIN,
                            KEY_HOLD_SHORTEST, TURN_70_DEGREES_MIN, {}))

\* plan_and_execute past the gates
SteerCycle ==
    /\ sr_pc = "frame"
    /\ sr_dots # <<>>
    /\ \E q \in {act(NewPlanner, PlanStart, sr_dots, TargetWindow, TargetWindow,
                     ActDraw(MOB_CLICK_Y_MIN, <<0, 0>>, FALSE, "forward",
                             MOVEMENT_PATTERN_MIN, {}))} :
          /\ sr_keys' = q.out.keys
          /\ sr_prog' = program(q, sr_dots, TargetWindow, sr_d, 0)
    /\ sr_pc' = "done"
    /\ UNCHANGED <<sr_dots, sr_d>>
    /\ UNCHANGED srRest

SrNext == SteerCycle

-----------------------------------------------------------------------------
(* try_stealth_attack as a function of the manager's cooldown state, of the *)
(* configuration and of has_health.  An outcome is [mode, ret, m, sent,     *)
(* calls]: the mode chosen, the pair returned, the manager after the call,  *)
(* the keys sent, and the executing methods called, each with its result    *)
(* and with the manager it left behind.                                     *)

Outcome(mode, ret, m, sent, subcalls) ==
    [mode |-> mode, ret |-> ret, m |-> m, sent |-> sent, calls |-> subcalls]

Sub(op, r) == [op |-> op, ret |-> r.ret, m |-> r.m]

\* every way try_execute_random_combo can go: random.choice, the input call
\* that raises, the delays drawn
random_combo_outcomes(m, combos_on) ==
    LET ready_now == get_ready_combos(m, combos_on)
    IN  IF ready_now = <<>>
        THEN {try_execute_random_combo(m, combos_on, 1, 0, <<>>)}
        ELSE UNION {{try_execute_random_combo(m, combos_on, pick, fail, delays) :
                        fail \in FaultsOf(ready_now[pick]),
                        delays \in DelaysOf(ready_now[pick])} :
                    pick \in DOMAIN ready_now}

\* every way execute_single_skill can go
single_skill_outcomes(m) ==
    LET available == available_single_skills(m)
    IN  IF ~is_single_skill_ready(m) \/ available = <<>>
        THEN {execute_single_skill(m, 1, FALSE)}
        ELSE UNION {{execute_single_skill(m, pick, raises) :
                        raises \in {FALSE} \cup (IF InputMayRaise(available[pick])
                                                 THEN {TRUE} ELSE {})} :
                    pick \in DOMAIN available}

\* a variant of the combo_set branch that has no fallback
combo_set_branch_NoFallback(m, c) ==
    {Outcome("combo_set", <<"combo_set", c.ret>>, c.m, c.sent,
            <<Sub("try_execute_random_combo", c)>>)}

\* lines 512-521, c being what try_execute_random_combo answered
combo_set_branch(m, c) ==
    IF ~c.ret /\ has_available_single_skill(c.m)
    THEN {Outcome("combo_set", <<"single_skill", r.ret>>, r.m, c.sent \o r.sent,
                 <<Sub("try_execute_random_combo", c),
                   Sub("execute_single_skill", r)>>) :
             r \in single_skill_outcomes(c.m)}
    ELSE {Outcome("combo_set", <<"combo_set", c.ret>>, c.m, c.sent,
                 <<Sub("try_execute_random_combo", c)>>)}

\* try_stealth_attack: the outcomes the call can have
try_stealth_attack(m, combos_on, cfg, has_health) ==
    IF cfg.require_health /\ ~has_health
    THEN {Outcome("none", <<"standard_attack", TRUE>>, m, <<>>, <<>>)}
    ELSE UNION {
           CASE mode = "standard_attack" ->
                  {Outcome(mode, <<"standard_attack", TRUE>>, m, <<>>, <<>>)}
             [] mode = "single_skill" ->
                  {Outcome(mode, <<"single_skill", r.ret>>, r.m, r.sent,
                          <<Sub("execute_single_skill", r)>>) :
                      r \in single_skill_outcomes(m)}
             [] OTHER ->
                  UNION {combo_set_branch(m, c) :
                            c \in random_combo_outcomes(m, combos_on)} :
           mode \in choose_actionable_mode(m, combos_on, cfg, has_health)}

SaInitWith(m, cfg, has_health) ==
    /\ sa_m = m
    /\ sa_cfg = cfg
    /\ sa_has_health = has_health
    /\ sa_pc = "call"
    /\ sa_mode = "none"
    /\ sa_ret = <<"none", FALSE>>
    /\ sa_after = m
    /\ sa_sent = <<>>
    /\ sa_calls = <<>>

SaInit ==
    \E m \in ModeManagers, weights \in WeightConfigs, require_health \in BOOLEAN,
       has_health \in BOOLEAN :
        SaInitWith(m, [weights |-> weights, require_health |-> require_health],
                   has_health)

SaParked ==
    SaInitWith([now |-> ModeNow, skills |-> EmptyMap, combos |-> EmptyMap,
                single |-> 0], AttackConfig, FALSE)

\* one call of try_stealth_attack
TryStealthAttack ==
    /\ sa_pc = "call"
    /\ \E r \in try_stealth_attack(sa_m, TRUE, sa_cfg, sa_has_health) :
          /\ sa_mode' = r.mode
          /\ sa_ret' = r.ret
          /\ sa_after' = r.m
          /\ sa_sent' = r.sent
          /\ sa_calls' = r.calls
    /\ sa_pc' = "done"
    /\ UNCHANGED <<sa_m, sa_cfg, sa_has_health>>
    /\ UNCHANGED saRest

SaNext == TryStealthAttack

-----------------------------------------------------------------------------
(* input_controller.tap_key, one step per backend call.  ahk.send and       *)
(* user32.SendInput either go through or raise; an event is recorded only   *)
(* for a call that went through.                                            *)

MaxPresses == 3

\* the keys passed to tap_key: two the table knows (one in upper case) and
\* one it does not
TapKeys == {"1", "W", "zz"}

\* str.lower() on the keys above
key_lower(key) == IF key = "W" THEN "w" ELSE key

\* the entries of VK_CODES the keys above can reach
VK_CODES == [k \in {"w", "1"} |-> IF k = "w" THEN 87 ELSE 49]

KEYEVENTF_KEYUP == 2

\* dict.get: 0 stands for None
vk_code_of(key) ==
    IF key_lower(key) \in DOMAIN VK_CODES THEN VK_CODES[key_lower(key)] ELSE 0

AhkEvent(key) == [via |-> "ahk", what |-> key, flags |-> 0]
SendInputEvent(vk, flags) == [via |-> "sendinput", what |-> vk, flags |-> flags]

TkInitWith(use_ahk) ==
    /\ tk_ahk = use_ahk
    /\ tk_key = "1"
    /\ tk_presses = 0
    /\ tk_pc = "idle"
    /\ tk_i = 0
    /\ tk_vk = 0
    /\ tk_events = <<>>
    /\ tk_failed = {}

TkInit == \E use_ahk \in BOOLEAN : TkInitWith(use_ahk)

TkParked == TkInitWith(FALSE)

\* def tap_key(key, presses, interval): entry, up to the first loop test
TapKeyCall(key, n) ==
    /\ tk_pc \in {"idle", "returned"}
    /\ tk_key' = key
    /\ tk_presses' = n
    /\ tk_pc' = IF tk_ahk THEN "ahk" ELSE "lookup"
    /\ tk_i' = 0
    /\ tk_vk' = 0
    /\ tk_events' = <<>>
    /\ tk_failed' = {}
    /\ UNCHANGED tk_ahk
    /\ UNCHANGED tkRest

\* one iteration of `for _ in range(presses): ahk.send(key, blocking=True)`;
\* a raise leaves the try block for the SendInput fallback
AhkSend(raises) ==
    /\ tk_pc = "ahk"
    /\ tk_i < tk_presses
    /\ IF raises
       THEN /\ tk_failed' = tk_failed \cup {"ahk"}
            /\ tk_pc' = "lookup"
            /\ UNCHANGED <<tk_i, tk_events>>
       ELSE /\ tk_events' = Append(tk_events, AhkEvent(tk_key))
            /\ tk_i' = tk_i + 1
            /\ UNCHANGED <<tk_failed, tk_pc>>
    /\ UNCHANGED <<tk_ahk, tk_key, tk_presses, tk_vk>>
    /\ UNCHANGED tkRest

\* the loop is exhausted: `return`
AhkReturn ==
    /\ tk_pc = "ahk"
    /\ tk_i = tk_presses
    /\ tk_pc' = "returned"
    /\ UNCHANGED <<tk_ahk, tk_key, tk_presses, tk_i, tk_vk, tk_events, tk_failed>>
    /\ UNCHANGED tkRest

\* vk_code = VK_CODES.get(key.lower()); an unknown key returns, a known one
\* starts the loop from its first iteration
LookupKey ==
    /\ tk_pc = "lookup"
    /\ tk_vk' = vk_code_of(tk_key)
    /\ tk_pc' = IF vk_code_of(tk_key) = 0 THEN "returned"
                ELSE IF tk_presses = 0 THEN "returned" ELSE "down"
    /\ tk_i' = 0
    /\ UNCHANGED <<tk_ahk, tk_key, tk_presses, tk_events, tk_failed>>
    /\ UNCHANGED tkRest

\* user32.SendInput(1, byref(input_down), ...); a raise is caught by the
\* `except Exception` around the loop, which returns
SendInputDown(raises) ==
    /\ tk_pc = "down"
    /\ IF raises
       THEN /\ tk_failed' = tk_failed \cup {"sendinput"}
            /\ tk_pc' = "returned"
            /\ UNCHANGED tk_events
       ELSE /\ tk_events' = Append(tk_events, SendInputEvent(tk_vk, 0))
            /\ tk_pc' = "up"
            /\ UNCHANGED tk_failed
    /\ UNCHANGED <<tk_ahk, tk_key, tk_presses, tk_i, tk_vk>>
    /\ UNCHANGED tkRest

\* user32.SendInput(1, byref(input_up), ...), then the next loop test
SendInputUp(raises) ==
    /\ tk_pc = "up"
    /\ IF raises
       THEN /\ tk_failed' = tk_failed \cup {"sendinput"}
            /\ tk_pc' = "returned"
            /\ UNCHANGED <<tk_events, tk_i>>
       ELSE /\ tk_events' = Append(tk_events, SendInputEvent(tk_vk, KEYEVENTF_KEYUP))
            /\ tk_i' = tk_i + 1
            /\ tk_pc' = IF tk_i + 1 < tk_presses THEN "down" ELSE "returned"
            /\ UNCHANGED tk_failed
    /\ UNCHANGED <<tk_ahk, tk_key, tk_presses, tk_vk>>
    /\ UNCHANGED tkRest

TkNext ==
    \/ \E key \in TapKeys, n \in 0..MaxPresses : TapKeyCall(key, n)
    \/ \E raises \in BOOLEAN : AhkSend(raises)
    \/ AhkReturn
    \/ LookupKey
    \/ \E raises \in BOOLEAN : SendInputDown(raises)
    \/ \E raises \in BOOLEAN : SendInputUp(raises)

-----------------------------------------------------------------------------
(* WorkflowClient.parse_predictions on a response holding one prediction    *)
(* whose box is written by its corners.  A number is Num(n) with n in       *)
(* thousandths, so that the halves and the products the code computes on    *)
(* the values below are exact, as they are in binary floating point.        *)

Thousandths == 1000

\* the frame the predictions were made on, in pixels
FrameW == 8
FrameH == 6
NoFrame == <<>>

\* a Python dict with the given entries (a function from its keys)
PyDict(entries) == [kind |-> "dict", entries |-> entries]

\* d.get(k)
PyGet(d, k) == IF k \in DOMAIN d THEN d[k] ELSE NoneValue

IsNone(v) == v.kind = "none"

\* a or b: None and 0 are falsy
py_or(a, b) == IF IsNone(a) \/ (a.kind = "num" /\ a.n = 0) THEN b ELSE a

Minus(a, b) == Num(a.n - b.n)

Box4(x, y, w, h) == [x |-> x, y |-> y, w |-> w, h |-> h]

\* looks_like_detection(d)
looks_like_detection(d) ==
    DOMAIN d \cap {"x", "y", "width", "height", "bbox", "xmin", "ymin", "xmax",
                   "ymax", "class", "label", "confidence", "score"} # {}

\* walk(resp_json) on {"predictions": preds}: the list is taken whole when
\* its first element looks like a detection
walk(preds) ==
    IF Len(preds) > 0 /\ looks_like_detection(preds[1]) THEN preds ELSE <<>>

\* x = p.get("x") ... h = p.get("height")
plain_fields(p) ==
    Box4(PyGet(p, "x"), PyGet(p, "y"), PyGet(p, "width"), PyGet(p, "height"))

\* if None not in (xmin, ymin, xmax, ymax): x = xmin ... h = ymax - ymin
from_corners(b, xmin, ymin, xmax, ymax) ==
    IF IsNone(xmin) \/ IsNone(ymin) \/ IsNone(xmax) \/ IsNone(ymax)
    THEN b
    ELSE Box4(xmin, ymin, Minus(xmax, xmin), Minus(ymax, ymin))

\* if x is None and "bbox" in p: the list of four, or the dict of corners
bbox_branch(p, b) ==
    IF ~(IsNone(b.x) /\ "bbox" \in DOMAIN p)
    THEN b
    ELSE LET bb == PyGet(p, "bbox")
         IN  IF bb.kind = "list"
             THEN IF Len(bb.items) = 4
                  THEN Box4(bb.items[1], bb.items[2],
                            Minus(bb.items[3], bb.items[1]),
                            Minus(bb.items[4], bb.items[2]))
                  ELSE b
             ELSE IF bb.kind = "dict"
             THEN from_corners(b,
                    py_or(PyGet(bb.entries, "xmin"), PyGet(bb.entries, "x")),
                    py_or(PyGet(bb.entries, "ymin"), PyGet(bb.entries, "y")),
                    py_or(PyGet(bb.entries, "xmax"), PyGet(bb.entries, "x2")),
                    py_or(PyGet(bb.entries, "ymax"), PyGet(bb.entries, "y2")))
             ELSE b

\* if x is None and ("xmin" in p or "x_min" in p)
top_level_branch(p, b) ==
    IF ~(IsNone(b.x) /\ ("xmin" \in DOMAIN p \/ "x_min" \in DOMAIN p))
    THEN b
    ELSE from_corners(b,
            py_or(PyGet(p, "xmin"), PyGet(p, "x_min")),
            py_or(PyGet(p, "ymin"), PyGet(p, "y_min")),
            py_or(PyGet(p, "xmax"), PyGet(p, "x_max")),
            py_or(PyGet(p, "ymax"), PyGet(p, "y_max")))

\* maybe_scale(val, dim): a value between 0.0 and 1.0 is taken as normalized
maybe_scale(val, dim) ==
    IF IsNone(val) THEN NoneValue
    ELSE IF 0 <= val.n /\ val.n <= Thousandths THEN Num(val.n * dim)
    ELSE val

\* if fw and fh: x = maybe_scale(x, fw) ...
scaled(b, frame) ==
    IF frame # NoFrame /\ frame[1] # 0 /\ frame[2] # 0
    THEN Box4(maybe_scale(b.x, frame[1]), maybe_scale(b.y, frame[2]),
              maybe_scale(b.w, frame[1]), maybe_scale(b.h, frame[2]))
    ELSE b

\* the centre heuristic and out_list.append: the entry appended, if any
top_left(b, frame) ==
    IF IsNone(b.x) \/ IsNone(b.y) \/ IsNone(b.w) \/ IsNone(b.h)
    THEN <<>>
    ELSE LET xf == b.x.n
             yf == b.y.n
             wf == b.w.n
             hf == b.h.n
             limit == IF frame # NoFrame /\ frame[1] # 0
                      THEN frame[1] * Thousandths ELSE xf
             centre == \/ frame = NoFrame
                       \/ (0 <= xf - wf \div 2 /\ xf - wf \div 2 <= limit)
         IN  << [x |-> IF centre THEN xf - wf \div 2 ELSE xf,
                 y |-> IF centre THEN yf - hf \div 2 ELSE yf,
                 width |-> wf,
                 height |-> hf] >>

\* the body of `for p in candidates`
parse_candidate(p, frame) ==
    top_left(scaled(top_level_branch(p, bbox_branch(p, plain_fields(p))), frame),
             frame)

RECURSIVE parse_candidates(_, _)
parse_candidates(cands, frame) ==
    IF cands = <<>> THEN <<>>
    ELSE parse_candidate(Head(cands), frame) \o parse_candidates(Tail(cands), frame)

parse_predictions(preds, frame) == parse_candidates(walk(preds), frame)

\* the prediction that writes the corners c in the given form
Prediction(form, c) ==
    IF form = "list"
    THEN [class |-> Str("mob"),
          bbox |-> List(<<Num(c[1]), Num(c[2]), Num(c[3]), Num(c[4])>>)]
    ELSE IF form = "dict"
    THEN [class |-> Str("mob"),
          bbox |-> PyDict([xmin |-> Num(c[1]), ymin |-> Num(c[2]),
                           xmax |-> Num(c[3]), ymax |-> Num(c[4])])]
    ELSE [class |-> Str("mob"), xmin |-> Num(c[1]), ymin |-> Num(c[2]),
          xmax |-> Num(c[3]), ymax |-> Num(c[4])]

\* corners inside the frame: whole pixels, and fractions of the frame
PixelXs == {0, 1, 2, 5, FrameW}
PixelYs == {0, 1, 3, FrameH}
Fractions == {0, 250, 500, 750, 1000}

CornerBoxes(units) ==
    IF units = "pixels"
    THEN {<<x1 * Thousandths, y1 * Thousandths, x2 * Thousandths, y2 * Thousandths>> :
            x1 \in PixelXs, y1 \in PixelYs,
            x2 \in PixelXs, y2 \in PixelYs}
    ELSE {<<x1, y1, x2, y2>> : x1 \in Fractions, y1 \in Fractions,
                              x2 \in Fractions, y2 \in Fractions}

PrInitWith(form, units, c, frame) ==
    /\ pr_form = form
    /\ pr_units = units
    /\ pr_box = c
    /\ pr_frame = frame
    /\ pr_pc = "call"
    /\ pr_out = <<>>

PrInit ==
    \E form \in {"list", "dict", "top"}, units \in {"pixels", "normalized"},
       frame \in {NoFrame, <<FrameW, FrameH>>} :
        \E c \in CornerBoxes(units) :
            /\ c[1] < c[3]
            /\ c[2] < c[4]
            /\ PrInitWith(form, units, c, frame)

PrParked ==
    PrInitWith("list", "pixels", <<0, 0, Thousandths, Thousandths>>, NoFrame)

ParsePredictions ==
    /\ pr_pc = "call"
    /\ pr_out' = parse_predictions(<<Prediction(pr_form, pr_box)>>, pr_frame)
    /\ pr_pc' = "done"
    /\ UNCHANGED <<pr_form, pr_units, pr_box, pr_frame>>
    /\ UNCHANGED prRest

PrNext == ParsePredictions

-----------------------------------------------------------------------------
(* The combo editor of main.py and the manager.  Both read the same list,   *)
(* skill_combo_config.COMBO_SETS: what the editor appends is seen by the    *)
(* manager's next call.  A report is [op, executed, sent, combo]: the       *)
(* method called, whether it reported a combo as executed, the keys sent    *)
(* during the call and the combo chosen.                                    *)

MaxListed == 3
MaxEditorCalls == 3
EditorTicks == 2

\* f'Combo {len(COMBO_SETS) + 1}'
NewComboName(n) ==
    IF n = 0 THEN "Combo 1" ELSE IF n = 1 THEN "Combo 2" ELSE "Combo 3"

\* the dictionary _new_combo appends (its delay of 0.5 s is never drawn: the
\* combo has no skill to wait between)
new_combo(n) ==
    [name |-> NewComboName(n), skills |-> <<>>, cooldown |-> 60,
     delay_between_skills |-> 0, enabled |-> TRUE]

Report(op, executed, r) ==
    [op |-> op, executed |-> executed, sent |-> r.sent, combo |-> r.combo]

NoReport ==
    [op |-> "none", executed |-> FALSE, sent |-> <<>>, combo |-> NoCombo]

\* try_execute_combos over the list as it stands: every way the call can go
first_combo_outcomes(m, combo_sets) ==
    LET combos == enabled_combo_sets(combo_sets, NoPriority)
        i == FirstReady(m, combos, 1)
    IN  IF combos = <<>> \/ i = 0
        THEN {[m |-> m, ret |-> FALSE, sent |-> <<>>, combo |-> NoCombo]}
        ELSE {[combo |-> combos[i]] @@ execute_combo(m, combos[i], fail, delays) :
                 fail \in FaultsOf(combos[i]), delays \in DelaysOf(combos[i])}

\* try_execute_random_combo over the list as it stands
chosen_combo_outcomes(m, combo_sets) ==
    LET ready_now == ready_combos(m, combo_sets)
    IN  IF ready_now = <<>>
        THEN {[m |-> m, ret |-> FALSE, sent |-> <<>>, combo |-> NoCombo]}
        ELSE UNION {{[combo |-> ready_now[pick]]
                        @@ execute_combo(m, ready_now[pick], fail, delays) :
                        fail \in FaultsOf(ready_now[pick]),
                        delays \in DelaysOf(ready_now[pick])} :
                    pick \in DOMAIN ready_now}

\* try_stealth_attack over the list as it stands, every weight of
\* ATTACK_MODE_WEIGHTS being positive: the pair returned, the manager after
\* the call, the keys sent and the combo chosen
stealth_outcomes(m, combo_sets) ==
    {[ret |-> <<"standard_attack", TRUE>>, m |-> m, sent |-> <<>>, combo |-> NoCombo]}
    \cup (IF has_available_single_skill(m)
          THEN {[ret |-> <<"single_skill", r.ret>>, m |-> r.m, sent |-> r.sent,
                 combo |-> NoCombo] : r \in single_skill_outcomes(m)}
          ELSE {})
    \cup (IF ready_combos(m, combo_sets) # <<>>
          THEN UNION {
                 IF ~c.ret /\ has_available_single_skill(c.m)
                 THEN {[ret |-> <<"single_skill", r.ret>>, m |-> r.m,
                        sent |-> c.sent \o r.sent, combo |-> c.combo] :
                          r \in single_skill_outcomes(c.m)}
                 ELSE {[ret |-> <<"combo_set", c.ret>>, m |-> c.m, sent |-> c.sent,
                        combo |-> c.combo]} :
                 c \in chosen_combo_outcomes(m, combo_sets)}
          ELSE {})

EdInitWith(combo_sets) ==
    /\ ed_combos = combo_sets
    /\ ed_m = [now |-> StartTime, skills |-> EmptyMap, combos |-> EmptyMap,
               single |-> 0]
    /\ ed_last = NoReport
    /\ ed_calls = 0

EdInit ==
    \E combo_sets \in {<<>>, <<COMBO_SETS[1]>>, <<COMBO_SETS[1], COMBO_SETS[2]>>} :
        EdInitWith(combo_sets)

EdParked == EdInitWith(<<>>)

\* _new_combo: COMBO_SETS.append(new_combo)
NewCombo ==
    /\ Len(ed_combos) < MaxListed
    /\ ed_combos' = Append(ed_combos, new_combo(Len(ed_combos)))
    /\ UNCHANGED <<ed_m, ed_last, ed_calls>>
    /\ UNCHANGED edRest

EdTryExecuteCombos ==
    /\ ed_calls < MaxEditorCalls
    /\ ed_calls' = ed_calls + 1
    /\ \E r \in first_combo_outcomes(ed_m, ed_combos) :
          /\ ed_m' = r.m
          /\ ed_last' = Report("try_execute_combos", r.ret, r)
    /\ UNCHANGED ed_combos
    /\ UNCHANGED edRest

EdTryExecuteRandomCombo ==
    /\ ed_calls < MaxEditorCalls
    /\ ed_calls' = ed_calls + 1
    /\ \E r \in chosen_combo_outcomes(ed_m, ed_combos) :
          /\ ed_m' = r.m
          /\ ed_last' = Report("try_execute_random_combo", r.ret, r)
    /\ UNCHANGED ed_combos
    /\ UNCHANGED edRest

EdTryStealthAttack ==
    /\ ed_calls < MaxEditorCalls
    /\ ed_calls' = ed_calls + 1
    /\ \E r \in stealth_outcomes(ed_m, ed_combos) :
          /\ ed_m' = r.m
          /\ ed_last' = Report("try_stealth_attack", r.ret = <<"combo_set", TRUE>>, r)
    /\ UNCHANGED ed_combos
    /\ UNCHANGED edRest

\* time passes between calls
EdTick ==
    /\ ed_m.now < StartTime + EditorTicks
    /\ ed_m' = [ed_m EXCEPT !.now = ed_m.now + 1]
    /\ UNCHANGED <<ed_combos, ed_last, ed_calls>>
    /\ UNCHANGED edRest

EdNext ==
    \/ NewCombo
    \/ EdTryExecuteCombos
    \/ EdTryExecuteRandomCombo
    \/ EdTryStealthAttack
    \/ EdTick

-----------------------------------------------------------------------------
(* The click point of an attack on a fresh mob target, for boxes of every   *)
(* size: narrower and wider than twice the jitter, lower and taller than    *)
(* the jitter needs.                                                        *)

ClickXs == {0, 50}
ClickYs == {0, 30}
ClickWidths == {10, 29, 30, 31, 100}
ClickHeights == {10, 21, 22, 149, 150, 200}

\* random.uniform(MOB_CLICK_Y_MIN, MOB_CLICK_Y_MAX): the ends and the middle
ClickDepths == {MOB_CLICK_Y_MIN, (MOB_CLICK_Y_MIN + MOB_CLICK_Y_MAX) \div 2, MOB_CLICK_Y_MAX}

\* get_mouse_jitter(): randint on each axis, the ends and zero
ClickJitters ==
    {<<dx, dy>> : dx \in {-MOUSE_JITTER_X, 0, MOUSE_JITTER_X},
                  dy \in {-MOUSE_JITTER_Y, 0, MOUSE_JITTER_Y}}

CkInitWith(target, ypct, jitter) ==
    /\ ck_target = target
    /\ ck_a = ActDraw(ypct, jitter, FALSE, "forward", MOVEMENT_PATTERN_MIN, {})
    /\ ck_pc = "call"
    /\ ck_click = <<0, 0>>

CkInit ==
    \E x \in ClickXs, y \in ClickYs, w \in ClickWidths, h \in ClickHeights,
       ypct \in ClickDepths, jitter \in ClickJitters :
        CkInitWith(Det("mob_near", x, y, w, h, 90), ypct, jitter)

CkParked == CkInitWith(Det("mob_near", 0, 0, 10, 10, 90), MOB_CLICK_Y_MIN, <<0, 0>>)

\* plan_and_execute past its gates on a frame holding the mob alone
AttackTarget ==
    /\ ck_pc = "call"
    /\ \E q \in {attack_target(NewPlanner, ck_target, <<ck_target>>, TargetWindow, ck_a)} :
          ck_click' = q.out.click
    /\ ck_pc' = "done"
    /\ UNCHANGED <<ck_target, ck_a>>
    /\ UNCHANGED ckRest

CkNext == AttackTarget

-----------------------------------------------------------------------------
(* The hunt: an aggressive controller whose tick() is called without end,   *)
(* on a grid wide enough for an enemy to be out of find_target's radius.    *)
(* The clock is kept relative: time.time() reads HuntNow at every call, and *)
(* a second passing moves every last_used one second into the past, down to *)
(* 0, from where every skill is ready.                                      *)

HuntWidth == 8
HuntHeight == 2
HuntNow == SimStart

\* go_to on the hunt's grid
go_to_in(width, height, p, pos) ==
    LET path == astar(width, height, p.pos.at, pos)
    IN  IF path.none \/ path.path = <<>> THEN p
        ELSE [p EXCEPT !.pos = At(path.path[Len(path.path)])]

\* return_to_village on the hunt's grid: [player, raised]
return_to_village_in(width, height, p, village_pos) ==
    LET origin == p.pos.at
        there == go_to_in(width, height, p, village_pos)
        sold == village_actions(there,
                                [i \in DOMAIN there.inventory |->
                                     there.inventory[i].item], 1)
        filled == refill_potions(sold.player)
    IN  IF sold.raised THEN sold
        ELSE IF filled.raised THEN filled
        ELSE [player |-> go_to_in(width, height, filled.player, origin),
              raised |-> FALSE]

\* auto_hunt on the hunt's grid
auto_hunt_in(width, height, p, es, now) ==
    LET t == find_target(p, es)
        near == go_to_in(width, height, p, es[t].pos)
        hit == attack(near, es[t], now)
        dead == ~is_alive(hit.enemy)
    IN  IF t = 0 THEN [Did("tick", p, es) EXCEPT !.hunted = TRUE]
        ELSE [Did("tick",
                  IF dead THEN collect_loot(hit.attacker,
                                            hit.enemy.loot_table, 1)
                  ELSE hit.attacker,
                  [es EXCEPT ![t] = hit.enemy])
                 EXCEPT !.hunted = TRUE, !.target = t, !.moved = TRUE,
                        !.attacked = TRUE, !.used = hit.used,
                        !.dmg = hit.dmg, !.looted = dead]

\* tick on the hunt's grid, the state being aggressive
tick_in(width, height, p, es, now) ==
    LET healed == auto_heal(p)
    IN  IF inventory_full(healed) \/ potions_empty(healed)
        THEN LET back == return_to_village_in(width, height, healed, VillagePos)
             IN  [Did("tick", back.player, es)
                     EXCEPT !.village = TRUE, !.raised = back.raised]
        ELSE auto_hunt_in(width, height, healed, es, now)

\* the players: healthy or hurt, weak or strong, with no potion, some, or as
\* many as the inventory holds, with no gold or enough for a refill
HuntPlayers ==
    [hp : {2, 10}, max_hp : {10}, attack : {1, 10}, pos : {At(<<0, 1>>)},
     skills : {SampleSkills},
     inventory : {<<>>} \cup {<<Entry(hp_potion_name, n)>> : n \in 1..inventory_capacity},
     gold : {[set |-> TRUE, amount |-> g] : g \in {0, potion_refill_amount}}]

\* two enemies: the first listed far from the player (in reach at 6,1, out
\* of reach at 7,0), the second beside the player or with the first
HuntEnemies ==
    {<<Enemy(h1, pos1, <<Entry("coin", 1)>>), Enemy(h2, pos2, <<Entry("fur", 1)>>)>> :
        h1 \in {0, 12}, pos1 \in {<<6, 1>>, <<7, 0>>},
        h2 \in {0, 5}, pos2 \in {<<1, 1>>, <<6, 1>>}}

HuntIndexes == 1..2

HnInitWith(p, es) ==
    /\ hn_p = p
    /\ hn_es = es
    /\ hn_last = Did("init", p, es)
    /\ hn_loots = [i \in DOMAIN es |-> 0]
    /\ hn_attacked = {}
    /\ hn_ticks = 0

HnInit == \E p \in HuntPlayers, es \in HuntEnemies : HnInitWith(p, es)

HnParked ==
    HnInitWith([hp |-> 10, max_hp |-> 10, attack |-> 10, pos |-> At(<<0, 1>>),
                skills |-> SampleSkills, inventory |-> <<>>,
                gold |-> [set |-> TRUE, amount |-> 0]],
               <<>>)

\* one call of tick()
HuntTick ==
    /\ \E r \in {tick_in(HuntWidth, HuntHeight, hn_p, hn_es, HuntNow)} :
          /\ hn_p' = r.player
          /\ hn_es' = r.enemies
          /\ hn_last' = [r EXCEPT !.player = hn_p, !.enemies = hn_es]
          /\ hn_loots' = IF r.looted
                         THEN [hn_loots EXCEPT ![r.target] = @ + 1]
                         ELSE hn_loots
          /\ hn_attacked' = IF r.attacked THEN hn_attacked \cup {r.target}
                            ELSE hn_attacked
    /\ hn_ticks' = 1 - hn_ticks
    /\ UNCHANGED hnRest

\* a second passes between two ticks
HuntElapse ==
    /\ \E k \in DOMAIN hn_p.skills : hn_p.skills[k].last_used > 0
    /\ hn_p' = [hn_p EXCEPT !.skills =
                   [k \in DOMAIN @ |-> [@[k] EXCEPT !.last_used = Max(0, @ - 1)]]]
    /\ UNCHANGED <<hn_es, hn_last, hn_loots, hn_attacked, hn_ticks>>
    /\ UNCHANGED hnRest

HnNext ==
    \/ HuntTick
    \/ HuntElapse

\* tick() is called again: the step every call of tick() takes, whatever
\* else the call does
TickCalled == hn_ticks' = 1 - hn_ticks

----------------------------------------------------------------------------
(* The specifications: each examines one part of the program and leaves    *)
(* the others as they are constructed.                                     *)

InitManager == MgrInit /\ TgtParked /\ PlanParked /\ WinParked /\ ModeParked
    /\ CapParked /\ AhkParked /\ CfgParked /\ ElevParked /\ PfParked
    /\ PlayParked /\ PrioParked /\ ValParked /\ WfParked /\ RzParked
    /\ CyParked /\ DvParked /\ DtParked /\ SrParked /\ SaParked /\ TkParked
    /\ PrParked /\ EdParked /\ CkParked /\ HnParked

SpecManager == InitManager /\ [][MgrNext]_vars

InitTarget == TgtInit /\ MgrParked /\ PlanParked /\ WinParked /\ ModeParked
    /\ CapParked /\ AhkParked /\ CfgParked /\ ElevParked /\ PfParked
    /\ PlayParked /\ PrioParked /\ ValParked /\ WfParked /\ RzParked
    /\ CyParked /\ DvParked /\ DtParked /\ SrParked /\ SaParked /\ TkParked
    /\ PrParked /\ EdParked /\ CkParked /\ HnParked

SpecTarget == InitTarget /\ [][TgtNext]_vars

InitPlanner == PlanInit /\ MgrParked /\ TgtParked /\ WinParked /\ ModeParked
    /\ CapParked /\ AhkParked /\ CfgParked /\ ElevParked /\ PfParked
    /\ PlayParked /\ PrioParked /\ ValParked /\ WfParked /\ RzParked
    /\ CyParked /\ DvParked /\ DtParked /\ SrParked /\ SaParked /\ TkParked
    /\ PrParked /\ EdParked /\ CkParked /\ HnParked

SpecPlanner == InitPlanner /\ [][PlanNext]_vars

InitWindow == WinInit /\ MgrParked /\ TgtParked /\ PlanParked /\ ModeParked
    /\ CapParked /\ AhkParked /\ CfgParked /\ ElevParked /\ PfParked
    /\ PlayParked /\ PrioParked /\ ValParked /\ WfParked /\ RzParked
    /\ CyParked /\ DvParked /\ DtParked /\ SrParked /\ SaParked /\ TkParked
    /\ PrParked /\ EdParked /\ CkParked /\ HnParked

SpecWindow == InitWindow /\ [][WinNext]_vars

InitModes == ModeInit /\ MgrParked /\ TgtParked /\ PlanParked /\ WinParked
    /\ CapParked /\ AhkParked /\ CfgParked /\ ElevParked /\ PfParked
    /\ PlayParked /\ PrioParked /\ ValParked /\ WfParked /\ RzParked
    /\ CyParked /\ DvParked /\ DtParked /\ SrParked /\ SaParked /\ TkParked
    /\ PrParked /\ EdParked /\ CkParked /\ HnParked

SpecModes == InitModes /\ [][ModeNext]_vars

InitCapture == CapInit /\ MgrParked /\ TgtParked /\ PlanParked /\ WinParked
    /\ ModeParked /\ AhkParked /\ CfgParked /\ ElevParked /\ PfParked
    /\ PlayParked /\ PrioParked /\ ValParked /\ WfParked /\ RzParked
    /\ CyParked /\ DvParked /\ DtParked /\ SrParked /\ SaParked /\ TkParked
    /\ PrParked /\ EdParked /\ CkParked /\ HnParked

SpecCapture == InitCapture /\ [][CapNext]_vars

InitAhk == AhkInit /\ MgrParked /\ TgtParked /\ PlanParked /\ WinParked /\ ModeParked
    /\ CapParked /\ CfgParked /\ ElevParked /\ PfParked /\ PlayParked
    /\ PrioParked /\ ValParked /\ WfParked /\ RzParked /\ CyParked /\ DvParked
    /\ DtParked /\ SrParked /\ SaParked /\ TkParked /\ PrParked /\ EdParked
    /\ CkParked /\ HnParked

SpecAhk == InitAhk /\ [][AhkNext]_vars

InitRewrite == CfgInit /\ MgrParked /\ TgtParked /\ PlanParked /\ WinParked
    /\ ModeParked /\ CapParked /\ AhkParked /\ ElevParked /\ PfParked
    /\ PlayParked /\ PrioParked /\ ValParked /\ WfParked /\ RzParked
    /\ CyParked /\ DvParked /\ DtParked /\ SrParked /\ SaParked /\ TkParked
    /\ PrParked /\ EdParked /\ CkParked /\ HnParked

SpecRewrite == InitRewrite /\ [][CfgNext]_vars

InitElevation == ElevInit /\ MgrParked /\ TgtParked /\ PlanParked /\ WinParked
    /\ ModeParked /\ CapParked /\ AhkParked /\ CfgParked /\ PfParked
    /\ PlayParked /\ PrioParked /\ ValParked /\ WfParked /\ RzParked
    /\ CyParked /\ DvParked /\ DtParked /\ SrParked /\ SaParked /\ TkParked
    /\ PrParked /\ EdParked /\ CkParked /\ HnParked

SpecElevation == InitElevation /\ [][ElevNext]_vars

InitAstar == PfInit /\ MgrParked /\ TgtParked /\ PlanParked /\ WinParked
    /\ ModeParked /\ CapParked /\ AhkParked /\ CfgParked /\ ElevParked
    /\ PlayParked /\ PrioParked /\ ValParked /\ WfParked /\ RzParked
    /\ CyParked /\ DvParked /\ DtParked /\ SrParked /\ SaParked /\ TkParked
    /\ PrParked /\ EdParked /\ CkParked /\ HnParked

SpecAstar == InitAstar /\ [][PfNext]_vars /\ WF_vars(PfNext)

InitPlay == PlayInit /\ MgrParked /\ TgtParked /\ PlanParked /\ WinParked
    /\ ModeParked /\ CapParked /\ AhkParked /\ CfgParked /\ ElevParked
    /\ PfParked /\ PrioParked /\ ValParked /\ WfParked /\ RzParked /\ CyParked
    /\ DvParked /\ DtParked /\ SrParked /\ SaParked /\ TkParked /\ PrParked
    /\ EdParked /\ CkParked /\ HnParked

SpecPlay == InitPlay /\ [][PlayNext]_vars

InitPriority == PrioInit /\ MgrParked /\ TgtParked /\ PlanParked /\ WinParked
    /\ ModeParked /\ CapParked /\ AhkParked /\ CfgParked /\ ElevParked
    /\ PfParked /\ PlayParked /\ ValParked /\ WfParked /\ RzParked
    /\ CyParked /\ DvParked /\ DtParked /\ SrParked /\ SaParked /\ TkParked
    /\ PrParked /\ EdParked /\ CkParked /\ HnParked

SpecPriority == InitPriority /\ [][PrioNext]_vars

InitValidate == ValInit /\ MgrParked /\ TgtParked /\ PlanParked /\ WinParked
    /\ ModeParked /\ CapParked /\ AhkParked /\ CfgParked /\ ElevParked
    /\ PfParked /\ PlayParked /\ PrioParked /\ WfParked /\ RzParked
    /\ CyParked /\ DvParked /\ DtParked /\ SrParked /\ SaParked /\ TkParked
    /\ PrParked /\ EdParked /\ CkParked /\ HnParked

SpecValidate == InitValidate /\ [][ValNext]_vars

InitWorkflow == WfInit /\ MgrParked /\ TgtParked /\ PlanParked /\ WinParked
    /\ ModeParked /\ CapParked /\ AhkParked /\ CfgParked /\ ElevParked
    /\ PfParked /\ PlayParked /\ PrioParked /\ ValParked /\ RzParked
    /\ CyParked /\ DvParked /\ DtParked /\ SrParked /\ SaParked /\ TkParked
    /\ PrParked /\ EdParked /\ CkParked /\ HnParked

SpecWorkflow == InitWorkflow /\ [][WfNext]_vars

InitResize == RzInit /\ MgrParked /\ TgtParked /\ PlanParked /\ WinParked
    /\ ModeParked /\ CapParked /\ AhkParked /\ CfgParked /\ ElevParked
    /\ PfParked /\ PlayParked /\ PrioParked /\ ValParked /\ WfParked
    /\ CyParked /\ DvParked /\ DtParked /\ SrParked /\ SaParked /\ TkParked
    /\ PrParked /\ EdParked /\ CkParked /\ HnParked

SpecResize == InitResize /\ [][RzNext]_vars

InitCycle == CyInit /\ MgrParked /\ TgtParked /\ PlanParked /\ WinParked
    /\ ModeParked /\ CapParked /\ AhkParked /\ CfgParked /\ ElevParked
    /\ PfParked /\ PlayParked /\ PrioParked /\ ValParked /\ WfParked
    /\ RzParked /\ DvParked /\ DtParked /\ SrParked /\ SaParked /\ TkParked
    /\ PrParked /\ EdParked /\ CkParked /\ HnParked

SpecCycle == InitCycle /\ [][CyNext]_vars

InitDriven == DvInit /\ MgrParked /\ TgtParked /\ PlanParked /\ WinParked
    /\ ModeParked /\ CapParked /\ AhkParked /\ CfgParked /\ ElevParked
    /\ PfParked /\ PlayParked /\ PrioParked /\ ValParked /\ WfParked
    /\ RzParked /\ CyParked /\ DtParked /\ SrParked /\ SaParked /\ TkParked
    /\ PrParked /\ EdParked /\ CkParked /\ HnParked

SpecDriven == InitDriven /\ [][DvNext]_vars

InitDetector == DtInit /\ MgrParked /\ TgtParked /\ PlanParked /\ WinParked
    /\ ModeParked /\ CapParked /\ AhkParked /\ CfgParked /\ ElevParked
    /\ PfParked /\ PlayParked /\ PrioParked /\ ValParked /\ WfParked
    /\ RzParked /\ CyParked /\ DvParked /\ SrParked /\ SaParked /\ TkParked
    /\ PrParked /\ EdParked /\ CkParked /\ HnParked

SpecDetector == InitDetector /\ [][DtNext]_vars

InitSteer == SrInit /\ MgrParked /\ TgtParked /\ PlanParked /\ WinParked
    /\ ModeParked /\ CapParked /\ AhkParked /\ CfgParked /\ ElevParked
    /\ PfParked /\ PlayParked /\ PrioParked /\ ValParked /\ WfParked
    /\ RzParked /\ CyParked /\ DvParked /\ DtParked /\ SaParked /\ TkParked
    /\ PrParked /\ EdParked /\ CkParked /\ HnParked

SpecSteer == InitSteer /\ [][SrNext]_vars

InitStealth == SaInit /\ MgrParked /\ TgtParked /\ PlanParked /\ WinParked
    /\ ModeParked /\ CapParked /\ AhkParked /\ CfgParked /\ ElevParked
    /\ PfParked /\ PlayParked /\ PrioParked /\ ValParked /\ WfParked
    /\ RzParked /\ CyParked /\ DvParked /\ DtParked /\ SrParked /\ TkParked
    /\ PrParked /\ EdParked /\ CkParked /\ HnParked

SpecStealth == InitStealth /\ [][SaNext]_vars

InitTap == TkInit /\ MgrParked /\ TgtParked /\ PlanParked /\ WinParked /\ ModeParked
    /\ CapParked /\ AhkParked /\ CfgParked /\ ElevParked /\ PfParked
    /\ PlayParked /\ PrioParked /\ ValParked /\ WfParked /\ RzParked /\ CyParked
    /\ DvParked /\ DtParked /\ SrParked /\ SaParked /\ PrParked /\ EdParked
    /\ CkParked /\ HnParked

SpecTap == InitTap /\ [][TkNext]_vars

InitParse == PrInit /\ MgrParked /\ TgtParked /\ PlanParked /\ WinParked
    /\ ModeParked /\ CapParked /\ AhkParked /\ CfgParked /\ ElevParked
    /\ PfParked /\ PlayParked /\ PrioParked /\ ValParked /\ WfParked
    /\ RzParked /\ CyParked /\ DvParked /\ DtParked /\ SrParked /\ SaParked
    /\ TkParked /\ EdParked /\ CkParked /\ HnParked

SpecParse == InitParse /\ [][PrNext]_vars

InitEditor == EdInit /\ MgrParked /\ TgtParked /\ PlanParked /\ WinParked
    /\ ModeParked /\ CapParked /\ AhkParked /\ CfgParked /\ ElevParked
    /\ PfParked /\ PlayParked /\ PrioParked /\ ValParked /\ WfParked
    /\ RzParked /\ CyParked /\ DvParked /\ DtParked /\ SrParked /\ SaParked
    /\ TkParked /\ PrParked /\ CkParked /\ HnParked

SpecEditor == InitEditor /\ [][EdNext]_vars

InitClick == CkInit /\ MgrParked /\ TgtParked /\ PlanParked /\ WinParked
    /\ ModeParked /\ CapParked /\ AhkParked /\ CfgParked /\ ElevParked
    /\ PfParked /\ PlayParked /\ PrioParked /\ ValParked /\ WfParked
    /\ RzParked /\ CyParked /\ DvParked /\ DtParked /\ SrParked /\ SaParked
    /\ TkParked /\ PrParked /\ EdParked /\ HnParked

SpecClick == InitClick /\ [][CkNext]_vars

InitHunt == HnInit /\ MgrParked /\ TgtParked /\ PlanParked /\ WinParked /\ ModeParked
    /\ CapParked /\ AhkParked /\ CfgParked /\ ElevParked /\ PfParked
    /\ PlayParked /\ PrioParked /\ ValParked /\ WfParked /\ RzParked /\ CyParked
    /\ DvParked /\ DtParked /\ SrParked /\ SaParked /\ TkParked /\ PrParked
    /\ EdParked /\ CkParked

SpecHunt == InitHunt /\ [][HnNext]_vars /\ WF_hn_ticks(TickCalled)

----------------------------------------------------------------------------
(* Claims about the manager.  They are stated over the history of the keys *)
(* sent (skill_used, combo_used) and the configuration, not over the       *)
(* manager's own bookkeeping.                                              *)

AllKeybinds == Keybinds \cup ConfiguredSkills

\* the cooldown the configuration gives a keybind: its entry, else 10 s
ConfiguredCooldown(k) ==
    IF Lower(k) \in ConfiguredSkills THEN SKILL_COOLDOWNS[Lower(k)]
    ELSE DefaultSkillCooldown

\* ready as the history of sends says: never sent, or sent a cooldown ago
ReadyByHistory(k) ==
    \/ Lower(k) \notin DOMAIN skill_used
    \/ mnow - skill_used[Lower(k)] >= ConfiguredCooldown(k)

\* C1: a skill never executed is ready; after a successful execute_skill(k)
\* at time t, is_skill_ready(k) is false while less than cooldown(k) has
\* elapsed since t and true from then on, until k is executed again or the
\* cooldowns are reset (cooldown(k): the configured value, 10 s if absent).
C1_SkillReadiness ==
    \A k \in AllKeybinds : is_skill_ready(Manager, k) <=> ReadyByHistory(k)

\* C1 witness: the unconfigured keybind is ready again 10 s after its
\* execution while a configured one, executed later, is still cooling down
C1_Witness ==
    /\ "f5" \in DOMAIN skill_used
    /\ mnow - skill_used["f5"] >= DefaultSkillCooldown
    /\ is_skill_ready(Manager, "f5")
    /\ "1" \in DOMAIN skill_used
    /\ mnow - skill_used["1"] < SKILL_COOLDOWNS["1"]
    /\ ~is_skill_ready(Manager, "1")

ComboOps == {"execute_combo", "try_execute_combos", "try_execute_random_combo"}

SkillsSent(sent) == [i \in DOMAIN sent |-> sent[i].skill]

\* C2: if the k-th skill of a combo fails, execute_combo returns failure
\* without sending a later skill, does not set the combo's own timestamp (a
\* combo that was ready stays ready), and the skills before k stay marked
\* as used at the time each was sent; the combo's timestamp is set only
\* when every skill of the combo succeeded.
C2_ComboFailure ==
    [][mlast'.op \in ComboOps /\ mlast'.combo # "none" =>
         LET combo == ComboNamed(mlast'.combo)
             sent == mlast'.sent
         IN  /\ Len(sent) <= Len(combo.skills)
             /\ SkillsSent(sent) = SubSeq(combo.skills, 1, Len(sent))
             /\ mlast'.ret <=> Len(sent) = Len(combo.skills)
             /\ ~mlast'.ret =>
                   /\ combo_cooldowns' = combo_cooldowns
                   /\ is_combo_ready(Manager, combo) =>
                         is_combo_ready(Manager', combo)
                   /\ \A i \in DOMAIN sent :
                         /\ Lower(sent[i].skill) \in DOMAIN skill_cooldowns'
                         /\ skill_cooldowns'[Lower(sent[i].skill)] >= sent[i].at
                         /\ ~is_skill_ready(Manager', sent[i].skill)
             /\ mlast'.ret =>
                   /\ combo.name \in DOMAIN combo_cooldowns'
                   /\ combo_cooldowns'[combo.name] = mnow'
             /\ combo_cooldowns' # combo_cooldowns => mlast'.ret
    ]_vars

\* C2 witness: the three-skill combo failed at its second skill; the first
\* is marked used, the third was not sent, the combo has no timestamp
C2_Witness ==
    /\ mlast.op = "execute_combo"
    /\ mlast.combo = "Buff"
    /\ ~mlast.ret
    /\ SkillsSent(mlast.sent) = <<"1">>
    /\ "1" \in DOMAIN skill_cooldowns
    /\ "2" \notin DOMAIN skill_cooldowns
    /\ "Buff" \notin DOMAIN combo_cooldowns

TryOps == {"try_execute_combos", "try_execute_random_combo"}

\* a combo is ready as the history says: enabled, never run to the end or
\* run a cooldown ago, and every skill of it ready
ComboReadyByHistory(c) ==
    /\ c.enabled
    /\ \/ c.name \notin DOMAIN combo_used
       \/ mnow - combo_used[c.name] >= c.cooldown
    /\ \A i \in DOMAIN c.skills : ReadyByHistory(c.skills[i])

ReadyNamesByHistory ==
    {COMBO_SETS[i].name : i \in {j \in DOMAIN COMBO_SETS :
                                    ComboReadyByHistory(COMBO_SETS[j])}}

SeqRange(s) == {s[i] : i \in DOMAIN s}

C3_ReadyListExact ==
    SKILL_COMBO_ENABLED =>
        /\ SeqRange(NamesOf(get_ready_combos(Manager, SKILL_COMBO_ENABLED)))
              = ReadyNamesByHistory
        /\ Len(get_ready_combos(Manager, SKILL_COMBO_ENABLED))
              = Cardinality(ReadyNamesByHistory)

\* C3: with the combo system enabled, get_ready_combos() returns exactly the
\* enabled combos whose own cooldown has elapsed (or that never ran) and all
\* of whose skills are ready; try_execute_random_combo() and
\* try_execute_combos() start only such a combo, and return false without
\* sending a key when there is none.
C3_OnlyReadyCombos ==
    /\ []C3_ReadyListExact
    /\ [][SKILL_COMBO_ENABLED /\ mlast'.op \in TryOps =>
             IF ReadyNamesByHistory = {}
             THEN /\ ~mlast'.ret
                  /\ mlast'.sent = <<>>
                  /\ mlast'.combo = "none"
             ELSE mlast'.combo \in ReadyNamesByHistory
        ]_vars

\* C3 witness: a try found the first combo cooling down with its skills
\* ready again and started the second one
C3_Witness ==
    /\ SKILL_COMBO_ENABLED
    /\ mlast.op \in TryOps
    /\ mlast.combo = "Buff"
    /\ mlast.sent # <<>>
    /\ "Basic" \in DOMAIN combo_used

\* the keys of the skill timestamps
SkillKeys == {Lower(k) : k \in AllKeybinds}

SkillStamp(f, k) == IF k \in DOMAIN f THEN f[k] ELSE -1

ExecOps == ComboOps \cup {"execute_skill", "execute_single_skill"}

\* the skill timestamps changed by the step are those of the skills sent
\* in it, each set to the time it was sent at or later
SkillStampsFollowSent ==
    \A k \in SkillKeys \cup DOMAIN skill_cooldowns \cup DOMAIN skill_cooldowns' :
        SkillStamp(skill_cooldowns', k) # SkillStamp(skill_cooldowns, k) =>
            \/ mlast'.op = "reset_cooldowns"
            \/ /\ mlast'.op \in ExecOps
               /\ \E i \in DOMAIN mlast'.sent :
                     /\ Lower(mlast'.sent[i].skill) = k
                     /\ mlast'.sent[i].at <= SkillStamp(skill_cooldowns', k)

\* the combo timestamp changed by the step is that of the combo run to the end
ComboStampsFollowSuccess ==
    \A n \in ComboNames \cup DOMAIN combo_cooldowns \cup DOMAIN combo_cooldowns' :
        SkillStamp(combo_cooldowns', n) # SkillStamp(combo_cooldowns, n) =>
            \/ mlast'.op = "reset_cooldowns"
            \/ /\ mlast'.op \in ComboOps
               /\ mlast'.ret
               /\ mlast'.combo = n

SingleStampFollowsSuccess ==
    last_single_skill_use' # last_single_skill_use =>
        \/ mlast'.op = "reset_cooldowns"
        \/ mlast'.op = "execute_single_skill" /\ mlast'.ret

ResetClearsAll ==
    mlast'.op = "reset_cooldowns" =>
        /\ skill_cooldowns' = EmptyMap
        /\ combo_cooldowns' = EmptyMap
        /\ last_single_skill_use' = 0

CooldownStateUnchanged ==
    UNCHANGED <<skill_cooldowns, combo_cooldowns, last_single_skill_use>>

\* C10, as corrected: a skill's timestamp changes only by a successful
\* execute_skill of that skill (alone or inside a combo or a single-skill
\* attack), a combo's only by a fully successful execute_combo of it, the
\* pooled timestamp only by a successful execute_single_skill, all of them
\* by reset_cooldowns(); queries and a failed execute_skill or
\* execute_single_skill change nothing, and a failed combo changes nothing
\* but the timestamps of the skills it sent before the failure.
C10_CooldownFrame ==
    [][/\ SkillStampsFollowSent
       /\ ComboStampsFollowSuccess
       /\ SingleStampFollowsSuccess
       /\ ResetClearsAll
       /\ mlast'.op \in {"query", "tick"} => CooldownStateUnchanged
       /\ mlast'.op \in {"execute_skill", "execute_single_skill"} /\ ~mlast'.ret =>
             CooldownStateUnchanged
       /\ mlast'.op \in ComboOps /\ ~mlast'.ret =>
             UNCHANGED <<combo_cooldowns, last_single_skill_use>>
    ]_vars

\* C10 as stated: every failed execution leaves the cooldown state unchanged
C10_AsStated ==
    [][/\ SkillStampsFollowSent
       /\ ComboStampsFollowSuccess
       /\ SingleStampFollowsSuccess
       /\ ResetClearsAll
       /\ mlast'.op \in {"query", "tick"} => CooldownStateUnchanged
       /\ mlast'.op \in ExecOps /\ ~mlast'.ret => CooldownStateUnchanged
    ]_vars

\* C10 witness: a single-skill attack succeeded and set the pooled timestamp
\* and the timestamp of the skill it sent, and no other
C10_Witness ==
    /\ mlast.op = "execute_single_skill"
    /\ mlast.ret
    /\ last_single_skill_use = mnow
    /\ Len(mlast.sent) = 1
    /\ DOMAIN skill_cooldowns = {Lower(mlast.sent[1].skill)}
    /\ combo_cooldowns = EmptyMap

----------------------------------------------------------------------------
(* Claims about _find_target_mob                                           *)

MobClasses == {"mob_oncursor", "mob_near", "mob_away"}

\* the rank of a mob class: mob_oncursor before mob_near before mob_away
ClassRank(d) ==
    CASE ClassLower(d.class) = "mob_oncursor" -> 1
      [] ClassLower(d.class) = "mob_near" -> 2
      [] ClassLower(d.class) = "mob_away" -> 3
      [] OTHER -> 4

\* a detection qualifies: a mob class and a confidence, present, of at least
\* the threshold
Qualifies(d) ==
    /\ ClassLower(d.class) \in MobClasses
    /\ d.confidence # NoConfidence
    /\ d.confidence >= conf_thresh

Qualifying == {i \in DOMAIN t_detections : Qualifies(t_detections[i])}

Marked(d) ==
    \E j \in DOMAIN t_detections :
        /\ ClassLower(t_detections[j].class) = "mob_target"
        /\ iou_over(d, t_detections[j])

\* the choice the claim describes, with the distance measured from the
\* doubled point q
ChosenAsClaimed(q) ==
    LET best == {i \in Qualifying : \A j \in Qualifying :
                    ClassRank(t_detections[i]) <= ClassRank(t_detections[j])}
        marked == {i \in best : Marked(t_detections[i])}
        pool == IF marked # {} THEN marked ELSE best
        dist(i) == LET c == center_of(t_detections[i])
                   IN  (2 * c[1] - q[1]) * (2 * c[1] - q[1])
                         + (2 * c[2] - q[2]) * (2 * c[2] - q[2])
        nearest == {i \in pool : \A j \in pool : dist(i) <= dist(j)}
    IN  IF Qualifying = {} THEN t_target = NoneDet
        ELSE /\ t_target # NoneDet
             /\ \E i \in nearest : t_target = t_detections[i]

----------------------------------------------------------------------------
(* Claims about ActionPlanner.plan_and_execute                             *)

\* a step that is a call of plan_and_execute
CycleStep == cycles' = cycles + 1 /\ plast'.branch # "set_enabled"

\* the call sent no input and did not focus the window
NoInput(out) == out.focus = 0 /\ out.click = NoClick /\ out.keys = {}

NavigationBranches == {"steer", "macro"}

\* the mob the cycle attacked, if any, and whether a health bar overlaps it
Attacked(out) == find_target_mob(out.seen, TargetWindow)

AttackedWithHealth(out) ==
    /\ out.branch = "attack"
    /\ \E i \in DOMAIN out.seen :
          /\ ClassLower(out.seen[i].class) = "mob_combat_health"
          /\ iou_over(Attacked(out), out.seen[i])

HealthOverlaps(box, frame) ==
    \E i \in DOMAIN frame :
        /\ ClassLower(frame[i].class) = "mob_combat_health"
        /\ iou_over(box, frame[i])

\* C4 (as stated): a gate-passing cycle that attacks a mob overlapped by a
\* health bar locks that mob, replacing any earlier lock; a gate-passing
\* cycle in which no health bar overlaps the locked box clears the lock and
\* runs the navigation logic in that same cycle, so that after a
\* gate-passing cycle a lock is always overlapped by a health bar.
C4_AsStated ==
    [][CycleStep /\ plast'.branch \in PassBranches
       => /\ AttackedWithHealth(plast') => target_locked' = Attacked(plast')
          /\ (/\ target_locked # NoneDet
              /\ ~HealthOverlaps(target_locked, plast'.seen)
              /\ ~AttackedWithHealth(plast'))
             => /\ target_locked' = NoneDet
                /\ plast'.branch \in NavigationBranches
          /\ target_locked' # NoneDet
             => HealthOverlaps(target_locked', plast'.seen)]_vars

\* C6: a call of plan_and_execute on a disabled planner sends no input, does
\* not focus the window and changes no field of the planner, whatever the
\* detections and the clock.
C6_DisabledNoEffect ==
    [][CycleStep /\ ~enabled
       => /\ NoInput(plast')
          /\ UNCHANGED <<enabled, last_action, action_count, target_locked,
                         in_idle_state, idle_until, last_idle_check,
                         current_movement_pattern, movement_pattern_start,
                         movement_pattern_duration>>]_vars

\* a disabled planner, locked on a target, was called long after its last
\* action and did nothing
C6_Witness ==
    /\ plast.branch = "disabled"
    /\ ~enabled
    /\ target_locked # NoneDet
    /\ pnow - last_action > ACTION_COOLDOWN_MAX + WARMUP_EXTRA_DELAY_MAX

\* the least cooldown a cycle can draw, with the actions taken so far
LeastCooldown ==
    ACTION_COOLDOWN_MIN
      + (IF action_count < WARMUP_ACTIONS THEN WARMUP_EXTRA_DELAY_MIN ELSE 0)

\* C7: a cycle reaches the attack and navigation logic only when the time
\* since the previous cycle that did is at least ACTION_COOLDOWN_MIN, and
\* at least WARMUP_EXTRA_DELAY_MIN more while fewer than WARMUP_ACTIONS
\* actions have been taken; it then stamps the last-action time and counts
\* the action.  A cycle that is gated out sends no input and leaves the
\* last-action time, the action count and the target lock as they were.
C7_CooldownGate ==
    [][CycleStep
       => /\ plast'.branch \in PassBranches
             => /\ last_pass # -1 => pnow' - last_pass >= LeastCooldown
                /\ last_action' = pnow'
                /\ action_count' = action_count + 1
          /\ plast'.branch = "gated"
             => /\ NoInput(plast')
                /\ UNCHANGED <<last_action, action_count, target_locked>>]_vars

\* past the warm-up, a cycle on a locked planner was gated out
C7_Witness ==
    /\ plast.branch = "gated"
    /\ action_count >= WARMUP_ACTIONS
    /\ target_locked # NoneDet
    /\ pnow - last_action >= ACTION_COOLDOWN_MIN

\* the idle periods started more than IDLE_CHECK_INTERVAL apart
IdlePeriodsApart ==
    \A i, j \in DOMAIN idle_starts :
        i < j => idle_starts[j] - idle_starts[i] > IDLE_CHECK_INTERVAL

\* C8: a cycle inside an idle period sends no input and leaves the target
\* lock and the last-action time as they were; the idle probability is
\* rolled only when more than IDLE_CHECK_INTERVAL has passed since the last
\* roll (since construction for the first), so that idle periods start more
\* than IDLE_CHECK_INTERVAL apart; the cycle whose roll succeeds enters the
\* idle period and sends no input.
C8_IdleBehaviour ==
    /\ []IdlePeriodsApart
    /\ [][CycleStep
          => /\ (enabled /\ in_idle_state /\ pnow' < idle_until)
                => /\ NoInput(plast')
                   /\ UNCHANGED <<target_locked, last_action>>
             /\ (plast'.rolled \/ last_idle_check' # last_idle_check)
                => pnow' - last_roll > IDLE_CHECK_INTERVAL
             /\ plast'.branch = "idle_enter"
                => /\ plast'.rolled
                   /\ NoInput(plast')
                   /\ in_idle_state'
                   /\ idle_until' >= pnow' + IDLE_DURATION_MIN]_vars

\* a second idle period has just started, on a planner that had acted
C8_Witness ==
    /\ Len(idle_starts) >= 2
    /\ plast.branch = "idle_enter"
    /\ action_count > 0

----------------------------------------------------------------------------
(* Claims about MainWindow                                                 *)

PlannerFollowsPreference ==
    controller.made => controller.action_planner.enabled = automation_enabled

\* C9: after any sequence of start, stop, toggle_automation and
\* emergency_stop, the planner of the window's controller, when there is
\* one, is enabled exactly when the automation preference is; emergency_stop
\* leaves the preference off and the planner of a controller disabled, and
\* does not raise; the preference changes only in toggle_automation and
\* emergency_stop, and a controller that start creates while it is off has
\* its planner disabled.
C9_PlannerFollowsPreference ==
    /\ []PlannerFollowsPreference
    /\ [](wlast.op = "emergency_stop"
            => /\ ~automation_enabled
               /\ controller.made => ~controller.action_planner.enabled
               /\ ~wlast.raised)
    /\ [][/\ automation_enabled' # automation_enabled
             => wlast'.op \in {"toggle_automation", "emergency_stop"}
          /\ (wlast'.op = "start" /\ wlast'.created /\ ~automation_enabled)
             => /\ controller'.made
                /\ ~controller'.action_planner.enabled]_vars

\* start has created and started a controller while the preference was off,
\* and its planner is disabled
C9_Witness ==
    /\ wlast.op = "start"
    /\ wlast.created
    /\ ~wlast.raised
    /\ controller.running
    /\ ~automation_enabled
    /\ ~controller.action_planner.enabled

----------------------------------------------------------------------------
(* Claims about execute_single_skill, over the history of the successful   *)
(* single-skill uses (single_uses) and of the keys sent (skill_used).      *)

\* the successful single-skill uses since the last reset_cooldowns()
RECURSIVE UsesSinceReset(_)
UsesSinceReset(h) ==
    IF h = <<>> \/ h[Len(h)].reset THEN <<>>
    ELSE Append(UsesSinceReset(SubSeq(h, 1, Len(h) - 1)), h[Len(h)])

\* the pooled global cooldown has elapsed since the last successful use
GcdElapsedByHistory ==
    LET uses == UsesSinceReset(single_uses)
    IN  uses # <<>> => mnow - uses[Len(uses)].at >= SINGLE_SKILL_GLOBAL_COOLDOWN

\* the skills of the pool that the history of sends says are ready
PoolReadyByHistory ==
    {SkillPool[i] : i \in {j \in DOMAIN SkillPool : ReadyByHistory(SkillPool[j])}}

\* no reset_cooldowns() lies between entries i and j of the history
NoResetBetween(i, j) == \A k \in i..j : ~single_uses[k].reset

\* one call of execute_single_skill, judged by the histories before it
SingleSkillStep ==
    mlast'.op = "execute_single_skill" =>
        /\ mlast'.ret <=> mlast'.sent # <<>>
        /\ mlast'.sent # <<>> =>
              /\ Len(mlast'.sent) = 1
              /\ GcdElapsedByHistory
              /\ mlast'.sent[1].skill \in PoolReadyByHistory
              /\ last_single_skill_use' = mnow'
        /\ ~GcdElapsedByHistory \/ PoolReadyByHistory = {} => ~mlast'.ret
        /\ ~mlast'.ret => last_single_skill_use' = last_single_skill_use

----------------------------------------------------------------------------
(* Claims about choose_actionable_mode.                                    *)

\* a skill of the single-skill pool is off cooldown and the pooled global
\* cooldown has elapsed
SingleActionable ==
    /\ a_manager.now - a_manager.single >= SINGLE_SKILL_GLOBAL_COOLDOWN
    /\ \E i \in DOMAIN SkillPool : is_skill_ready(a_manager, SkillPool[i])

\* an enabled combo is off cooldown with every one of its skills ready
ComboActionable ==
    /\ a_combos_on
    /\ \E i \in DOMAIN COMBO_SETS :
          /\ COMBO_SETS[i].enabled
          /\ is_combo_ready(a_manager, COMBO_SETS[i])
          /\ are_all_skills_ready(a_manager, COMBO_SETS[i].skills)

\* C11 as the specification states it: with health required and no health
\* bar the mode is standard_attack; otherwise, whatever the weights,
\* single_skill is returned only when a single skill is actionable and
\* combo_set only when a combo is.  The code breaks the second half: when
\* the weights of the candidates left sum to zero it draws from all three
\* modes again, ready or not.
C11_AsStated ==
    a_done =>
        IF a_config.require_health /\ ~a_has_health
        THEN a_mode = "standard_attack"
        ELSE /\ a_mode = "single_skill" => SingleActionable
             /\ a_mode = "combo_set" => ComboActionable

----------------------------------------------------------------------------
(* Claims about CaptureWorker, over the history of the frames stored.      *)

\* the frame stored last, as the grab produced it
LastStored == Pixels(stored[Len(stored)])

\* get_latest_frame hands out None before the first store, afterwards a
\* separate object holding the frame stored last, read with the lock held
ReadsLatest ==
    clast'.op = "read_copy" =>
        /\ lock = "reader"
        /\ IF stored = <<>>
           THEN rret' = 0
           ELSE /\ rret' # 0
                /\ frames'[rret'] = LastStored
                /\ rret' # latest_frame'

\* the worker replaces the frame with the lock held and no read under way
StoresUnderLock ==
    clast'.op = "store" =>
        /\ lock = "worker"
        /\ rpc \notin {"locked", "copied"}

\* whatever callers do to their copies, the retained frame is the last store
RetainedIntact ==
    latest_frame' # 0 => frames'[latest_frame'] = Pixels(stored'[Len(stored')])

\* with the flag clear, at most the iteration in flight has stored a frame
StoresWhileRunning == ~running' => stores_since_stop' <= 1

\* an unresolved rectangle: nothing stored, nothing raised, the loop goes on
UnresolvedRetries ==
    clast'.op = "unresolved" =>
        /\ ~clast'.raised
        /\ wpc' = "check"
        /\ UNCHANGED <<latest_frame, frames, stored>>

\* C13: get_latest_frame returns None until a frame has been stored and
\* afterwards a copy of the frame stored last, taken under the lock the
\* worker stores under, so that no read sees a frame being replaced and no
\* change to a copy shows in a later read; the worker stores only while the
\* running flag is set, but for the one iteration in flight at stop_capture;
\* an unresolved window rectangle stores nothing and the loop retries.
C13_LatestFrame ==
    [][/\ ReadsLatest
       /\ StoresUnderLock
       /\ RetainedIntact
       /\ StoresWhileRunning
       /\ UnresolvedRetries
    ]_vars

\* C13 witness: after two stores, the second made by the iteration in flight
\* when the flag was cleared, a read returned a copy of the second frame
\* while the copy of an earlier read has been written over by its caller
C13_Witness ==
    /\ Len(stored) = 2
    /\ ~running
    /\ stores_since_stop = 1
    /\ rpc = "returned"
    /\ rret # 0
    /\ frames[rret] = LastStored
    /\ \E i \in DOMAIN frames : frames[i] = Scribble

----------------------------------------------------------------------------
(* Claims about AHKHardwareController.                                     *)

\* start with the executable or the script missing: failure, no child
StartNeedsFiles ==
    hlast'.op = "start" /\ (~ahk_exe \/ ~script_exists) =>
        /\ ~hlast'.ret
        /\ ~hlast'.raised
        /\ UNCHANGED <<children, process, is_running>>

\* a successful start launched exactly one child, which the controller holds
StartLaunches ==
    hlast'.op = "start" /\ hlast'.ret =>
        /\ children' = Append(children, "running")
        /\ process' = Len(children')

\* stop with no child ever started: nothing happens
StopWithoutChild ==
    hlast'.op = "stop" /\ process = 0 =>
        /\ ~hlast'.raised
        /\ UNCHANGED <<children, process, is_running>>

\* stop never raises and never starts or forgets a child
StopIsSafe ==
    hlast'.op = "stop" =>
        /\ ~hlast'.raised
        /\ process' = process
        /\ Len(children') = Len(children)

\* C14, as corrected: start fails and launches nothing when the executable
\* or the script is missing; stop without a child does nothing and raises
\* nothing; stop after a successful start never raises and leaves the child
\* either exited, with is_active() false and is_running cleared, or with
\* its forced termination attempted, in which case is_active() stays true
\* until the child has gone.
C14_Lifecycle ==
    [][/\ StartNeedsFiles
       /\ StartLaunches
       /\ StopWithoutChild
       /\ StopIsSafe
       /\ hlast'.op = "stop" /\ process # 0 =>
             \/ /\ children'[process] = "exited"
                /\ ~is_active(Ahk)'
                /\ ~is_running'
             \/ /\ children'[process] \in {"dying", "running"}
                /\ children[process] # "exited"
                /\ is_active(Ahk)'
                /\ is_running' = is_running
       /\ \A c \in DOMAIN children :
             children'[c] # children[c] =>
                hlast'.op = "child_exits" \/ (hlast'.op = "stop" /\ c = process)
    ]_vars

\* C14 as stated: once stop() has returned after a successful start(), the
\* child has been terminated and is_active() is false
C14_AsStated ==
    [][/\ StartNeedsFiles
       /\ StopWithoutChild
       /\ hlast'.op = "stop" /\ process # 0 => ~is_active(Ahk)'
    ]_vars

\* C14 witness: stop() has returned with the child of the second successful
\* start exited, while the child of the first start, never stopped, runs on
C14_Witness ==
    /\ hlast.op = "stop"
    /\ process = 2
    /\ children[process] = "exited"
    /\ children[1] = "running"
    /\ ~is_running

----------------------------------------------------------------------------
(* C30: every child process launched by start() is terminated by a later   *)
(* stop(): after any sequence of start() and stop() calls on the           *)
(* process-wide controller that ends with stop(), start() twice in a row   *)
(* included, no launched child process is still alive.                     *)

C30_AsStated ==
    hlast.op = "stop" => \A c \in DOMAIN children : children[c] = "exited"

\* What stop does: it acts on the child self.process refers to, the one of
\* the latest successful start, and on no other.
C30_OnlyLatestStopped ==
    [][hlast'.op = "stop" =>
          \A c \in DOMAIN children : c # process => children'[c] = children[c]
    ]_vars

\* start(), start(), stop(), stop(): both calls of stop have acted on the
\* second child, and the first child runs on
C30_OrphanState ==
    /\ hlast.op = "stop"
    /\ children = <<"running", "exited">>
    /\ process = 2
    /\ ~is_active(Ahk)

\* one start() and one stop() whose child exits in time: nothing is left
C30_PairedState ==
    /\ hlast.op = "stop"
    /\ children = <<"exited">>
    /\ ~is_running

----------------------------------------------------------------------------
(* Claims about the configuration rewrites.                                *)

\* C15 as the specification states it: after every save the file is the
\* file before it with each recognised declaration replaced by its new
\* literal and every other line unchanged and in place, so that a second
\* save of the same values changes nothing.  The code breaks it twice:
\* _save_main_config_to_file keeps the old body of ATTACK_MODE_WEIGHTS after
\* the new literal, and _save_config_to_file drops the lines that follow
\* SINGLE_SKILL_POOL up to the next comment or SINGLE_SKILL_GLOBAL_COOLDOWN.
C15_AsStated ==
    /\ [](config_lines = Flatten(config_items))
    /\ [][slast' = slast => config_lines' = config_lines]_vars

----------------------------------------------------------------------------
(* Claims about the elevation gate of main.py.                             *)

\* C16: run_app is entered only by a process that holds administrator
\* rights; a process without them ends with status 0 after ShellExecuteW
\* started the elevated relaunch, or with status 1 when it could not, and
\* never runs the GUI.
C16_ElevationGate ==
    \A i \in DOMAIN procs :
        LET p == procs[i]
        IN  /\ p.gui => p.elevated
            /\ p.pc = "run_app" => p.gui
            /\ ~p.elevated /\ p.pc = "exited" =>
                  /\ p.shell.called
                  /\ IF ~p.shell.raised /\ p.shell.ret > 32
                     THEN p.status = 0
                     ELSE p.status = 1

\* C16 witness: a process without rights has relaunched itself and exited
\* with 0 without entering run_app, and the relaunched process runs the GUI
C16_Witness ==
    /\ Len(procs) = 2
    /\ ~procs[1].elevated /\ procs[1].pc = "exited" /\ procs[1].status = 0
    /\ ~procs[1].gui
    /\ procs[2].pc = "run_app" /\ procs[2].elevated /\ procs[2].gui

----------------------------------------------------------------------------
(* C17: astar on an open grid.                                             *)

\* consecutive positions differ by one unit on one axis
UnitStep(a, b) ==
    \/ Abs(a[1] - b[1]) = 1 /\ a[2] = b[2]
    \/ a[1] = b[1] /\ Abs(a[2] - b[2]) = 1

ShortestWalk(path) ==
    /\ Len(path) = manhattan(pf_start, pf_goal) + 1
    /\ path[1] = pf_start
    /\ path[Len(path)] = pf_goal
    /\ \A i \in DOMAIN path : InBounds(grid_w, grid_h, path[i])
    /\ \A i \in 1..(Len(path) - 1) : UnitStep(path[i], path[i + 1])

AstarAnswer ==
    pf_pc = "done" =>
        /\ InBounds(grid_w, grid_h, pf_goal)
              /\ InBounds(grid_w, grid_h, pf_start)
              => ~pf_ret.none /\ ShortestWalk(pf_ret.path)
        /\ ~InBounds(grid_w, grid_h, pf_goal) => pf_ret.none

\* C17: for start and goal inside the grid astar returns a walk from start
\* to goal of Manhattan(start, goal) + 1 positions, all inside the grid,
\* each one unit from the one before on one axis; for a goal outside the
\* grid it returns no path; and every call returns
C17_Astar ==
    /\ []AstarAnswer
    /\ <>(pf_pc = "done")

\* C17 witness: a call between opposite corners of the largest grid has
\* returned its path
C17_Witness ==
    /\ pf_pc = "done"
    /\ grid_w = MaxSide /\ grid_h = MaxSide
    /\ pf_start = <<0, 0>>
    /\ pf_goal = <<MaxSide - 1, MaxSide - 1>>
    /\ ~pf_ret.none
    /\ Len(pf_ret.path) = 2 * MaxSide - 1

----------------------------------------------------------------------------
(* C18: the village return of AutoPlayController.tick.                     *)

\* the tick just made hunted in no way and left the enemies alone
NoHunt ==
    /\ ~klast.hunted /\ ~klast.moved /\ ~klast.attacked /\ ~klast.looted
    /\ enemies = klast.enemies
    /\ player.pos \in {klast.player.pos, At(VillagePos)}

\* the player of the tick drinks a potion in auto_heal
Drinks(p) ==
    /\ 10 * p.hp < 3 * p.max_hp
    /\ inv_get(p.inventory, hp_potion_name) > 0

\* the counts as tick tests them, after auto_heal
TotalAtTest(p) ==
    inv_total(p.inventory) - (IF Drinks(p) THEN 1 ELSE 0)

PotionsAtTest(p) ==
    inv_get(p.inventory, hp_potion_name) - (IF Drinks(p) THEN 1 ELSE 0)

\* C18: a tick whose inventory total, after auto_heal, is at least
\* inventory_capacity or whose potion count, after auto_heal, is zero or
\* less calls return_to_village and does not hunt, whatever the AI state
\* and the enemies; any other tick does not go to the village and hunts
\* only in the aggressive state
C18_VillageFirst ==
    klast.op = "tick" =>
        IF \/ TotalAtTest(klast.player) >= inventory_capacity
           \/ PotionsAtTest(klast.player) <= 0
        THEN klast.village /\ NoHunt
        ELSE /\ ~klast.village
             /\ klast.hunted <=> ai_state = "aggressive"

\* C18 as stated, the counts being those the tick starts with
C18_AsStated ==
    klast.op = "tick" =>
        IF \/ inv_total(klast.player.inventory) >= inventory_capacity
           \/ inv_get(klast.player.inventory, hp_potion_name) <= 0
        THEN klast.village /\ NoHunt
        ELSE klast.hunted => ai_state = "aggressive"

\* C18 witness: an aggressive tick with a living enemy in range and a full
\* inventory has gone to the village, come back and not hunted
C18_Witness ==
    /\ klast.op = "tick"
    /\ ai_state = "aggressive"
    /\ klast.player.pos.set
    /\ find_target(klast.player, klast.enemies) # 0
    /\ inv_total(klast.player.inventory) >= inventory_capacity
    /\ inv_get(klast.player.inventory, hp_potion_name) > 0
    /\ klast.village /\ ~klast.raised /\ ~klast.hunted
    /\ player.pos = klast.player.pos
    /\ inv_total(player.inventory) < inventory_capacity

----------------------------------------------------------------------------
(* C19: the damage of CombatEngine.                                        *)

\* the attack just made: its attacker, its enemy before and after
Attacker == klast.player
Struck == klast.enemies[klast.target]
StruckNow == enemies[klast.target]

\* the key use_skill looks up: the id of the skill registered as "basic"
BasicId == Attacker.skills["basic"].id

\* the skill use_skill finds is there and ready
Fires ==
    /\ "basic" \in DOMAIN Attacker.skills
    /\ BasicId \in DOMAIN Attacker.skills
    /\ sim_now - Attacker.skills[BasicId].last_used
          >= Attacker.skills[BasicId].cooldown

\* defender_hp * 0.01 without its fraction
Hundredths(hp) == IF hp >= 0 THEN hp \div 100 ELSE 0 - ((0 - hp) \div 100)

----------------------------------------------------------------------------
(* C20: the list get_enabled_combo_sets returns.                           *)

\* the enabled combos in configuration order
EnabledInOrder == SelectSeq(file_combo_sets, EnabledFlag)

\* an entry of COMBO_PRIORITY is in range: it indexes an enabled combo
InRange(idx) == 0 <= idx /\ idx < Len(EnabledInOrder)

\* the combos the in-range entries name, in the order of the list
Named ==
    LET hits == SelectSeq(file_combo_priority.order, InRange)
    IN  [i \in DOMAIN hits |-> EnabledInOrder[hits[i] + 1]]

Occurrences(seq, x) == Cardinality({i \in DOMAIN seq : seq[i] = x})

\* the rest of seq once its first n elements are taken
Rest(seq, n) == SubSeq(seq, n + 1, Len(seq))

\* COMBO_PRIORITY names no combo twice
NoRepeats ==
    \A i, j \in DOMAIN Named : Named[i] = Named[j] => i = j

OnlyEnabledOnce ==
    /\ \A i \in DOMAIN combo_ret : EnabledFlag(combo_ret[i])
    /\ \A i \in DOMAIN EnabledInOrder :
          Occurrences(combo_ret, EnabledInOrder[i]) = 1
    /\ Len(combo_ret) = Len(EnabledInOrder)

PriorityFirst ==
    file_combo_priority.given =>
        /\ Len(combo_ret) >= Len(Named)
        /\ SubSeq(combo_ret, 1, Len(Named)) = Named
        /\ Rest(combo_ret, Len(Named)) =
              SelectSeq(EnabledInOrder,
                        LAMBDA c : \A i \in DOMAIN Named : Named[i] # c)

\* C20: the call returns the enabled combos only, each exactly once; with
\* COMBO_PRIORITY set, the combos its in-range entries name come first, in
\* its order, and the other enabled combos follow in configuration order;
\* without it the order is the configuration's
C20_AsStated ==
    combo_pc = "done" =>
        /\ OnlyEnabledOnce
        /\ PriorityFirst
        /\ ~file_combo_priority.given => combo_ret = EnabledInOrder

\* the same for a COMBO_PRIORITY that names no combo twice
C20_WithoutRepeats ==
    combo_pc = "done" /\ NoRepeats =>
        /\ OnlyEnabledOnce
        /\ PriorityFirst
        /\ ~file_combo_priority.given => combo_ret = EnabledInOrder

\* a priority list with entries out of range and none repeated has put the
\* last of three enabled combos first
C20_ReorderedState ==
    /\ combo_pc = "done"
    /\ file_combo_priority = Priority(<<3, 2, 0 - 1>>)
    /\ Len(EnabledInOrder) = 3
    /\ combo_ret = <<file_combo_sets[3], file_combo_sets[1], file_combo_sets[2]>>

----------------------------------------------------------------------------
(* C21: what the validation accepts.                                       *)

\* an entry that is absent, or a number that is not negative
AbsentOrNonNegative(v) ==
    v.kind = "missing" \/ (v.kind = "num" /\ v.n >= 0)

\* a mapping with a non-empty skills list, every listed skill a key of
\* SKILL_COOLDOWNS whatever its case, cooldown and delay not negative
Acceptable(combo) ==
    /\ combo.kind = "dict"
    /\ combo.skills.kind = "list"
    /\ combo.skills.items # <<>>
    /\ \A i \in DOMAIN combo.skills.items :
          /\ combo.skills.items[i].kind = "str"
          /\ Lower(combo.skills.items[i].s) \in DOMAIN val_cooldowns
    /\ AbsentOrNonNegative(combo.cooldown)
    /\ AbsentOrNonNegative(combo.delay_between_skills)

ConfigurationAcceptable ==
    /\ \A k \in DOMAIN val_cooldowns : val_cooldowns[k] >= 0
    /\ \A i \in DOMAIN val_combo_sets : Acceptable(val_combo_sets[i])

\* every entry has the type the code reads it with
Typed(combo) ==
    combo.kind = "dict" /\ combo.skills.kind = "list" =>
        /\ \A i \in DOMAIN combo.skills.items :
              combo.skills.items[i].kind = "str"
        /\ combo.cooldown.kind \in {"missing", "num"}
        /\ combo.delay_between_skills.kind \in {"missing", "num"}

\* C21: validate_combo_set returns (true, _) exactly for an acceptable
\* combo and (false, message) for every other input, never raising;
\* validate_configuration returns true exactly when no cooldown is negative
\* and every combo is acceptable
C21_AsStated ==
    /\ vlast.op = "validate_combo_set" =>
          /\ ~vlast.out.raised
          /\ vlast.out.valid <=> Acceptable(val_combo)
    /\ vlast.op = "validate_configuration" =>
          ((~vlast.out.raised /\ vlast.out.valid) <=> ConfigurationAcceptable)

\* the same for combos whose entries have the types the code reads
C21_TypedInputs ==
    /\ vlast.op = "validate_combo_set" /\ Typed(val_combo) =>
          /\ ~vlast.out.raised
          /\ vlast.out.valid <=> Acceptable(val_combo)
    /\ vlast.op = "validate_configuration" =>
          ((~vlast.out.raised /\ vlast.out.valid) <=> ConfigurationAcceptable)

\* a combo with an upper-case keybind and both numbers has been accepted
C21_AcceptedState ==
    /\ vlast.op = "validate_combo_set"
    /\ val_combo = Dict(List(<<Str("ALT+1"), Str("2")>>), Num(5), Num(1))
    /\ vlast.out = Verdict(TRUE, "")

----------------------------------------------------------------------------
(* C22: the temporary file of run_workflow_on_bytes.                       *)

\* C22: once a call has left the function, its temporary file is gone
\* unless os.unlink failed, the only files that survive are those whose
\* os.unlink failed, and a call whose try block raised leaves with that
\* exception whether or not the file could be removed
C22_TempFileRemoved ==
    /\ [](wf_pc = "idle" =>
             /\ wf_files = wf_kept
             /\ wf_last.unlinked => wf_last.path \notin wf_files)
    /\ [][wf_pc = "finally" /\ wf_pending # "none" =>
             /\ wf_pc' = "idle"
             /\ wf_last'.how = wf_pending]_vars

\* C22 as stated: no temporary file survives any call
C22_AsStated ==
    wf_pc = "idle" => wf_files = {}

\* C22 witness: a call whose remote workflow raised has removed its file and
\* left with the workflow's exception
C22_Witness ==
    /\ wf_pc = "idle"
    /\ wf_last.how = "workflow raised"
    /\ wf_last.unlinked
    /\ wf_last.path # 0
    /\ wf_files = {}

-----------------------------------------------------------------------------
(* C23: resize_keep_aspect returns the image unchanged when max(width,      *)
(* height) <= target_max, and otherwise an image whose width and height     *)
(* are the input's scaled by target_max / max(width, height); the result    *)
(* is never larger than the input in either dimension and its longer side   *)
(* never exceeds target_max.                                                *)

RzLonger == Max(rz_w, rz_h)

C23_AsStated ==
    rz_pc = "done" =>
        IF RzLonger <= rz_target
        THEN rz_out = SameImage(rz_w, rz_h)
        ELSE /\ ~rz_out.raised
             /\ rz_out.w = (rz_w * rz_target) \div RzLonger
             /\ rz_out.h = (rz_h * rz_target) \div RzLonger
             /\ rz_out.w <= rz_w
             /\ rz_out.h <= rz_h
             /\ Max(rz_out.w, rz_out.h) <= rz_target

\* What does hold: an image that fits is returned as it is; a call that
\* returns a scaled image returns one that is no larger than the input, whose
\* longer side is at most target_max, and whose sides are the scaled sides
\* or one pixel less; the call raises exactly when a scaled side is 0.
C23_WhenReturned ==
    rz_pc = "done" =>
        IF RzLonger <= rz_target
        THEN rz_out = SameImage(rz_w, rz_h)
        ELSE LET exact_w == (rz_w * rz_target) \div RzLonger
                 exact_h == (rz_h * rz_target) \div RzLonger
             IN  IF rz_out.raised
                 THEN exact_w <= 1 \/ exact_h <= 1
                 ELSE /\ rz_out.w \in {exact_w, exact_w - 1}
                      /\ rz_out.h \in {exact_h, exact_h - 1}
                      /\ rz_out.w >= 1 /\ rz_out.h >= 1
                      /\ rz_out.w <= rz_w
                      /\ rz_out.h <= rz_h
                      /\ Max(rz_out.w, rz_out.h) <= rz_target

C23_HalvedState ==
    /\ rz_pc = "done"
    /\ rz_w = 20 /\ rz_h = 10 /\ rz_target = 10
    /\ rz_out = NewImage(10, 5)

C23_ThinState ==
    /\ rz_pc = "done"
    /\ rz_w = 20 /\ rz_h = 1 /\ rz_target = 10
    /\ rz_out.raised

C23_ShortState ==
    /\ rz_pc = "done"
    /\ rz_w = 22 /\ rz_h = 22 /\ rz_target = 15
    /\ rz_out = NewImage(14, 14)

-----------------------------------------------------------------------------
(* C24: if double_click_at or tap_key raises during a planning cycle, in    *)
(* any branch (fresh-target attack, locked-target continuation, map-dot     *)
(* steering, any movement-macro pattern), plan_and_execute catches and      *)
(* logs the failure: the exception never leaves plan_and_execute, and       *)
(* later cycles proceed normally.                                           *)

C24_AsStated == ~cy_raising /\ cy_how # "raised"

\* What does hold: an exception leaves plan_and_execute only from the
\* movement macro; in the other branches every failure is logged, and the
\* call returns.
C24_CaughtOutsideMacro ==
    /\ cy_raising => cy_branch = "macro" /\ cy_errors = 0
    /\ cy_errors > 0 => cy_branch \in {"attack", "locked", "steer"} /\ ~cy_raising

C24_MacroRaisesState ==
    /\ cy_pc = "running"
    /\ cy_branch = "macro"
    /\ cy_raising
    /\ cy_prog = <<>>
    /\ \E i \in DOMAIN cy_events : cy_events[i].kind = "down"

C24_SteerCaughtState ==
    /\ cy_pc = "running"
    /\ cy_branch = "steer"
    /\ cy_errors = 1
    /\ ~cy_raising
    /\ cy_prog = <<>>
    /\ \A i \in DOMAIN cy_events : cy_events[i].kind = "focus"

C24_LockedCaughtState ==
    /\ cy_pc = "running"
    /\ cy_branch = "locked"
    /\ cy_errors = 1
    /\ ~cy_raising

\* the cycle after one that raised attacks the mob of its frame
C24_NextCycleState ==
    /\ cy_how = "raised"
    /\ cy_pc = "running"
    /\ cy_branch = "attack"
    /\ cy_prog = <<>>
    /\ \E i \in DOMAIN cy_events : cy_events[i].kind = "click"

-----------------------------------------------------------------------------
(* C25: set_enabled(False) on the GUI thread while a plan_and_execute call  *)
(* is running on the detection thread does not interrupt that call: the     *)
(* call goes on to make every call it had still to make, sleeps and input   *)
(* alike, and the set_enabled itself changes nothing of the running call.   *)
(* The disable takes effect at the next call of plan_and_execute: a call    *)
(* entered while the planner is disabled takes the disabled branch, makes   *)
(* no call and sends no input.                                              *)

\* a call of the running cycle has returned
CallReturned ==
    /\ cy_pc = "running"
    /\ cy_prog # <<>>
    /\ cy_faults' = cy_faults
    /\ cy_toggles' = cy_toggles

RunsOn ==
    CallReturned =>
        /\ cy_prog' = Tail(cy_prog)
        /\ cy_pc' = "running"
        /\ Len(cy_events') >= Len(cy_events)
        /\ (Head(cy_prog).op \in {"click", "tap"} => Len(cy_events') > Len(cy_events))

ToggleLeavesCall ==
    cy_toggles' # cy_toggles =>
        /\ cy_prog' = cy_prog
        /\ cy_pc' = cy_pc
        /\ cy_events' = cy_events
        /\ cy_raising' = cy_raising

EnteredDisabled ==
    cy_pc = "idle" /\ cy_pc' = "running" /\ ~cy_p.enabled =>
        /\ cy_branch' = "disabled"
        /\ cy_prog' = <<>>
        /\ cy_events' = <<>>
        /\ cy_p' = cy_p

C25_DisableAtBoundary ==
    /\ [][RunsOn /\ ToggleLeavesCall /\ EnteredDisabled]_vars
    /\ [](cy_pc = "running" /\ cy_branch = "disabled" =>
             cy_events = <<>> /\ cy_prog = <<>>)

\* a movement macro that was disabled on its way and sent keys afterwards
C25_Witness ==
    /\ cy_pc = "running"
    /\ cy_branch = "macro"
    /\ ~cy_p.enabled
    /\ cy_late
    /\ cy_prog = <<>>
    /\ ~cy_raising

\* the call after it is refused, and the one after a set_enabled(True) acts
C25_RefusedState ==
    /\ cy_pc = "running"
    /\ cy_branch = "disabled"
    /\ cy_calls = 2
    /\ cy_how = "returned"

-----------------------------------------------------------------------------
(* C26: in a cycle that passes the gates, finds no mob target and has a     *)
(* lock: if a mob_combat_health detection overlaps the locked box           *)
(* (IoU > 0.05) the planner double-clicks at the window's top-left offset   *)
(* plus the centre of the locked box, leaves the lock as it is and does     *)
(* not navigate; otherwise it clears the lock and navigates (movement       *)
(* macro or map-dot steering) in that same cycle.                           *)

\* a cycle has passed the gates with a lock and without a mob target
LockedCycle ==
    /\ cycles' = cycles + 1
    /\ plast'.branch \in PassBranches
    /\ target_locked # NoneDet
    /\ find_target_mob(plast'.seen, TargetWindow) = NoneDet

LockedCentre ==
    <<TargetWindow[1] + (2 * target_locked.x + target_locked.width) \div 2,
      TargetWindow[2] + (2 * target_locked.y + target_locked.height) \div 2>>

HealthOverLock ==
    \E i \in DOMAIN plast'.seen :
        /\ ClassLower(plast'.seen[i].class) = "mob_combat_health"
        /\ iou_over(target_locked, plast'.seen[i])

C26_LockedTarget ==
    [][LockedCycle =>
          IF HealthOverLock
          THEN /\ plast'.branch = "locked"
               /\ plast'.click = LockedCentre
               /\ plast'.keys = {}
               /\ target_locked' = target_locked
          ELSE /\ target_locked' = NoneDet
               /\ plast'.branch \in {"macro", "steer"}
               /\ plast'.click = NoClick]_vars

\* the continued attack on MobA, whose health bar alone is in the frame
C26_Witness ==
    /\ plast.branch = "locked"
    /\ plast.seen = <<HealthA>>
    /\ target_locked = MobA
    /\ plast.click = <<TargetWindow[1] + 100, TargetWindow[2] + 50>>

\* the lock given up in a cycle that runs a movement macro
C26_ReleasedState ==
    /\ plast.branch = "macro"
    /\ plast.seen = <<>>
    /\ plast.keys # {}
    /\ target_locked = NoneDet
    /\ cycles = 2

-----------------------------------------------------------------------------
(* C27: in map-dot steering the chosen movement key (D or A for a turn, W   *)
(* or S for forward and back) is held down for the whole hold duration      *)
(* drawn: its key-up event comes no earlier than the hold duration after    *)
(* its key-down event, and the post-movement delay starts only after the    *)
(* key is released.                                                         *)

\* a steering cycle has made all its calls, none of which raised
Steered ==
    /\ cy_pc = "running"
    /\ cy_branch = "steer"
    /\ cy_hold > 0
    /\ cy_errors = 0
    /\ cy_prog = <<>>

KeyDowns == {i \in DOMAIN cy_events : cy_events[i].kind = "down"}
KeyUps == {i \in DOMAIN cy_events : cy_events[i].kind = "up"}

C27_AsStated ==
    Steered =>
        /\ KeyDowns # {} /\ KeyUps # {}
        /\ \A i \in KeyDowns, j \in KeyUps :
              /\ cy_events[j].key = cy_events[i].key
              /\ cy_events[j].at >= cy_events[i].at + cy_hold
        /\ \A j \in KeyUps :
              cy_events[Len(cy_events)].at >= cy_events[j].at

\* What does hold: the key is pressed and released at once (within 0.01 s),
\* the hold duration is slept after the key-up, and the post-movement delay
\* after that.
C27_TappedThenSlept ==
    Steered =>
        /\ Cardinality(KeyDowns) = 1 /\ Cardinality(KeyUps) = 1
        /\ \A i \in KeyDowns, j \in KeyUps :
              /\ j = i + 1
              /\ cy_events[j].key = cy_events[i].key
              /\ cy_events[j].at - cy_events[i].at = tap_gap(cy_ahk)
              /\ Len(cy_events) = j + 2
              /\ cy_events[j + 1].kind = "sleep"
              /\ cy_events[j + 1].dur = cy_hold
              /\ cy_events[j + 1].at = cy_events[j].at
              /\ cy_events[j + 2].kind = "sleep"
              /\ cy_events[j + 2].at = cy_events[j].at + cy_hold

C27_ForwardState ==
    /\ Steered
    /\ cy_hold = KEY_HOLD_LONGEST
    /\ ~cy_ahk
    /\ \E i \in KeyDowns : cy_events[i].key = "w"

C27_BigTurnState ==
    /\ Steered
    /\ cy_hold = TURN_70_DEGREES_MAX
    /\ \E i \in KeyDowns : cy_events[i].key = "d"

-----------------------------------------------------------------------------
(* C28: when one thread drives the manager through try_execute_combos,      *)
(* try_execute_random_combo, execute_single_skill and try_stealth_attack,   *)
(* every skill key it sends is for a skill that is off cooldown at the      *)
(* moment the key is sent, and no combo is started while its own cooldown   *)
(* is unexpired, for every combo configuration validate_combo_set accepts.  *)

C28_AsStated == dv_n = 1 => dv_unready = {} /\ dv_restarts = {}

\* the skill at position idx of the combo stands at an earlier position too
ListedBefore(combo_sets, name, idx) ==
    \E i \in DOMAIN combo_sets :
        /\ combo_sets[i].name = name
        /\ idx \in DOMAIN combo_sets[i].skills
        /\ \E j \in 1..(idx - 1) :
              Lower(combo_sets[i].skills[j]) = Lower(combo_sets[i].skills[idx])

\* What does hold: one thread never starts a combo within the combo's own
\* cooldown, and the only keys it sends for a skill on cooldown are the
\* repetitions of a skill inside one combo.
C28_ButRepeats ==
    dv_n = 1 =>
        /\ dv_restarts = {}
        /\ \A u \in dv_unready : ListedBefore(dv_cfg, u.combo, u.idx)

C28_RepeatState ==
    /\ dv_n = 1
    /\ dv_cfg = <<TwiceCombo>>
    /\ \E u \in dv_unready :
          /\ u.skill = "2" /\ u.op = "try_execute_combos"
          /\ u.combo = "Twice" /\ u.idx = 2

\* a run of one thread that executed a combo and a single skill cleanly
C28_CleanState ==
    /\ dv_n = 1
    /\ dv_cfg = <<COMBO_SETS[1]>>
    /\ dv_unready = {}
    /\ "Basic" \in DOMAIN dv_m.combos
    /\ dv_m.single > 0

-----------------------------------------------------------------------------
(* C29: the manager's readiness check and its execution are not one atomic  *)
(* step: two threads that call try_execute_random_combo or                  *)
(* execute_single_skill on one manager can both find the same combo or      *)
(* skill ready and both execute it within one cooldown window.              *)

\* Every combo started within its own cooldown, and every key sent for a
\* skill on cooldown, was stamped after the checks of the thread that
\* starts or sends it; unless the key repeats a skill of the thread's own
\* combo, the stamp is another thread's.
C29_StampedSinceCheck ==
    /\ \A r \in dv_restarts : r.checked # r.started /\ dv_n > 1
    /\ \A u \in dv_unready :
          /\ u.checked # u.sent
          /\ ~ListedBefore(dv_cfg, u.combo, u.idx) => dv_n > 1

\* two calls of try_execute_random_combo, one by each thread, both ran the
\* same combo
C29_Witness ==
    /\ dv_n = 2
    /\ dv_calls = 2
    /\ \A t \in DrivenThreads : dv_th[t].pc = "idle"
    /\ \E r \in dv_restarts : r.name = "Basic" /\ r.checked = 0
    /\ \A u \in dv_unready : u.op = "try_execute_random_combo"
    /\ "Basic" \in DOMAIN dv_m.combos

\* two calls of execute_single_skill, one by each thread, both sent the
\* same skill
C29_SingleState ==
    /\ dv_n = 2
    /\ dv_calls = 2
    /\ \A t \in DrivenThreads : dv_th[t].pc = "idle"
    /\ dv_restarts = {}
    /\ \E u \in dv_unready : u.op = "execute_single_skill" /\ u.checked = 0

-----------------------------------------------------------------------------
(* C31: at most one Detector loop thread executes loop iterations at any    *)
(* time: start() while the detector is running creates no second thread,    *)
(* and after stop() followed by start() only the newly created thread runs  *)
(* the loop and invokes the on_detect callback.                             *)

C31_AsStated ==
    /\ Cardinality(LoopThreads) <= 1
    /\ dt_stale = {}

\* What holds: as long as no join has timed out, there is at most one loop
\* thread, it is the one created last, and no other thread has invoked the
\* callback.
C31_UnlessTimedOut ==
    dt_timeouts = 0 =>
        /\ LoopThreads \subseteq {dt_thread}
        /\ dt_stale = {}

\* start() while running creates no thread
C31_StartWhileRunning ==
    [][dt_running /\ dt_calls' # dt_calls /\ dt_running' =>
          dt_threads' = dt_threads /\ dt_thread' = dt_thread]_vars

\* stop() timed out, start() followed: two threads are inside an iteration
C31_TwoLoopsState ==
    /\ dt_timeouts = 1
    /\ dt_running
    /\ dt_threads = <<"body", "body">>

\* the first thread has invoked the callback the second start() installed
C31_StaleCallbackState ==
    [thread |-> 1, on_detect |-> 3] \in dt_stale

\* stop() joined the thread, start() followed: one loop
C31_RestartedState ==
    /\ dt_timeouts = 0
    /\ dt_threads = <<"done", "body">>
    /\ dt_running

-----------------------------------------------------------------------------
(* C32: under every interleaving of the capture thread with a reader, the   *)
(* window size get_window_size() returns is the size of the window from     *)
(* which the frame get_latest_frame() currently returns was captured.       *)

\* the window size the stored frame was captured from
LatestFrameSize == captured_from[stored[Len(stored)]]

\* the two values agree at every moment, and so do the two a reader holds
C32_AsStated ==
    /\ latest_frame # 0 => last_window_size = LatestFrameSize
    /\ rsize # NoSize /\ frames[rret] # Scribble =>
          rsize = captured_from[frames[rret][1]]

\* What holds: the two agree from the store of a frame until the next
\* successful get_window_rect.
C32_BetweenIterations ==
    latest_frame # 0 /\ wpc \in {"unlock", "check", "resolve"} =>
        last_window_size = LatestFrameSize

\* the window was resized between two iterations: the new size is already
\* published while the frame on offer is the old one
C32_NewSizeOldFrameState ==
    /\ latest_frame # 0
    /\ wpc = "grab"
    /\ last_window_size = <<2, 2>>
    /\ LatestFrameSize = <<4, 3>>

\* the reader holds a frame of the old window and the size of the new one
C32_ReaderMixedState ==
    /\ rpc = "returned"
    /\ rsize = <<2, 2>>
    /\ frames[rret] # Scribble
    /\ captured_from[frames[rret][1]] = <<4, 3>>

\* the reader holds a frame and the size it was captured from
C32_ReaderAgreesState ==
    /\ rpc = "returned"
    /\ rsize # NoSize
    /\ frames[rret] # Scribble
    /\ rsize = captured_from[frames[rret][1]]
    /\ grabs = 2

-----------------------------------------------------------------------------
(* C33: in a gate-passing cycle with no mob target, no lock and at least    *)
(* one map dot, the normalized offset (ndx, ndy) of the chosen dot from the *)
(* centre decides the single key sent: |ndx| > 0.30 gives D if ndx > 0 else *)
(* A with the big-turn duration; otherwise |ndx| > 0.15 gives D or A with   *)
(* the fine-adjust duration; otherwise ndy < -0.12 gives W and ndy > 0.12   *)
(* gives S; otherwise no key is sent; at most one key is sent per cycle.    *)

\* ndx and ndy of the dot chosen, as fractions <<numerator, denominator>>
\* with a positive denominator: (tx - cx) / max(1.0, cx) with cx = w / 2
SteerNdx ==
    <<2 * center_of(BestDot(sr_dots, TargetWindow[3], TargetWindow[4]))[1]
        - TargetWindow[3],
      Max(2, TargetWindow[3])>>
SteerNdy ==
    <<2 * center_of(BestDot(sr_dots, TargetWindow[3], TargetWindow[4]))[2]
        - TargetWindow[4],
      Max(2, TargetWindow[4])>>

\* the taps of the cycle, and the sleep that follows the tap
SteerTaps == SelectSeq(sr_prog, LAMBDA ins : ins.op = "tap")
SleepAfterTap ==
    LET i == CHOOSE k \in DOMAIN sr_prog : sr_prog[k].op = "tap"
    IN  sr_prog[i + 1]

\* the one key and the duration slept after it
SentOnly(key, dur) ==
    /\ Len(SteerTaps) = 1
    /\ SteerTaps[1].key = key
    /\ SleepAfterTap.op = "sleep"
    /\ SleepAfterTap.dur = dur

C33_KeyByOffset ==
    sr_pc = "done" =>
        /\ Len(SteerTaps) <= 1
        /\ IF 100 * Abs(SteerNdx[1]) > 30 * SteerNdx[2]
           THEN SentOnly(IF SteerNdx[1] > 0 THEN "d" ELSE "a", sr_d.turn70)
           ELSE IF 100 * Abs(SteerNdx[1]) > 15 * SteerNdx[2]
           THEN SentOnly(IF SteerNdx[1] > 0 THEN "d" ELSE "a", sr_d.hold)
           ELSE IF 100 * SteerNdy[1] < -12 * SteerNdy[2]
           THEN SentOnly("w", sr_d.hold)
           ELSE IF 100 * SteerNdy[1] > 12 * SteerNdy[2]
           THEN SentOnly("s", sr_d.hold)
           ELSE SteerTaps = <<>>

\* a dot whose ndx is 0.31: D with the duration of the big turn, which
\* differs from the fine-adjust duration drawn
C33_Witness ==
    /\ sr_pc = "done"
    /\ sr_dots = <<SteerDot(129, 48, 4)>>
    /\ sr_d.turn70 # sr_d.hold
    /\ SentOnly("d", sr_d.turn70)

\* ndx = 0.30 and ndy = -0.12 exactly: a fine turn; no key at all
C33_FineTurnState ==
    /\ sr_pc = "done"
    /\ sr_dots = <<SteerDot(128, 48, 4)>>
    /\ SentOnly("d", sr_d.hold)
    /\ sr_d.turn70 # sr_d.hold
C33_NoKeyState ==
    /\ sr_pc = "done"
    /\ sr_dots = <<SteerDot(113, 42, 4)>>
    /\ SteerTaps = <<>>
C33_BackState ==
    /\ sr_pc = "done"
    /\ SentOnly("s", sr_d.hold)
    /\ Len(sr_dots) = 2

-----------------------------------------------------------------------------
(* C34: in try_stealth_attack, when combo_set is the mode chosen but        *)
(* executing a combo fails, single_skill is attempted exactly once as a     *)
(* fallback if a single skill is available and the call reports             *)
(* ('single_skill', its result), otherwise it reports ('combo_set', false); *)
(* when health gating is configured and no mob health bar is detected it    *)
(* reports ('standard_attack', true) without sending any key and without    *)
(* changing any cooldown state.                                             *)

SingleSkillCalls ==
    SelectSeq(sa_calls, LAMBDA c : c.op = "execute_single_skill")

C34_Fallback ==
    sa_pc = "done" =>
        /\ sa_cfg.require_health /\ ~sa_has_health =>
              /\ sa_ret = <<"standard_attack", TRUE>>
              /\ sa_sent = <<>>
              /\ sa_calls = <<>>
              /\ sa_after = sa_m
        /\ sa_mode = "combo_set" =>
              /\ sa_calls # <<>>
              /\ sa_calls[1].op = "try_execute_random_combo"
              /\ IF sa_calls[1].ret
                 THEN sa_ret = <<"combo_set", TRUE>> /\ Len(sa_calls) = 1
                 ELSE IF has_available_single_skill(sa_calls[1].m)
                 THEN /\ Len(sa_calls) = 2
                      /\ Len(SingleSkillCalls) = 1
                      /\ sa_ret = <<"single_skill", sa_calls[2].ret>>
                      /\ sa_after = sa_calls[2].m
                 ELSE /\ Len(sa_calls) = 1
                      /\ sa_ret = <<"combo_set", FALSE>>

\* a combo that failed at its second skill, after the first key was sent,
\* and the fallback that succeeded
C34_Witness ==
    /\ sa_pc = "done"
    /\ sa_mode = "combo_set"
    /\ Len(sa_calls) = 2
    /\ ~sa_calls[1].ret
    /\ sa_ret = <<"single_skill", TRUE>>
    /\ Len(sa_sent) = 2

\* no combo was ready and no single skill either
C34_NothingState ==
    /\ sa_pc = "done"
    /\ sa_mode = "combo_set"
    /\ sa_ret = <<"combo_set", FALSE>>
    /\ sa_sent = <<>>

\* the fallback itself failed
C34_FallbackFailsState ==
    /\ sa_pc = "done"
    /\ sa_mode = "combo_set"
    /\ sa_ret = <<"single_skill", FALSE>>

\* health gating
C34_GatedState ==
    /\ sa_pc = "done"
    /\ sa_cfg.require_health /\ ~sa_has_health
    /\ sa_ret = <<"standard_attack", TRUE>>
    /\ sa_m.skills # EmptyMap

-----------------------------------------------------------------------------
(* tap_key: the cycles sent by the two backends together                    *)

\* the down/up cycles ahk.send produced: one per call that went through
AhkCycles == Cardinality({k \in DOMAIN tk_events : tk_events[k].via = "ahk"})

\* the down/up cycles SendInput produced: a key-up that follows the
\* key-down of the same virtual key
SendInputCycles ==
    Cardinality({k \in DOMAIN tk_events :
        /\ k > 1
        /\ tk_events[k].via = "sendinput"
        /\ tk_events[k - 1].via = "sendinput"
        /\ tk_events[k] = SendInputEvent(vk_code_of(tk_key), KEYEVENTF_KEYUP)
        /\ tk_events[k - 1] = SendInputEvent(vk_code_of(tk_key), 0)})

KnownKey == vk_code_of(tk_key) # 0

\* C35: when tap_key(key, presses=n) has returned for a key of VK_CODES,
\* the AHK backend and the SendInput fallback have together produced exactly
\* n down/up cycles of the key, and the call never raises.
C35_AsStated ==
    /\ tk_pc # "raised"
    /\ (tk_pc = "returned" /\ KnownKey) =>
            AhkCycles + SendInputCycles = tk_presses

\* C35, what the code guarantees: the call never raises; with no backend
\* failing there are exactly n cycles; when ahk.send raised and SendInput
\* did not, the fallback sends all n cycles again on top of those AHK already
\* sent; when SendInput raised, it sent fewer than n.
C35_CyclesByFailure ==
    /\ tk_pc # "raised"
    /\ (tk_pc = "returned" /\ KnownKey) =>
        /\ tk_failed = {} => AhkCycles + SendInputCycles = tk_presses
        /\ tk_failed = {"ahk"} =>
                /\ SendInputCycles = tk_presses
                /\ AhkCycles < tk_presses
        /\ "sendinput" \in tk_failed => SendInputCycles < tk_presses

\* ahk.send went through once and raised on the second press: three cycles
\* for presses=2
C35_ExtraCycleState ==
    /\ tk_pc = "returned"
    /\ KnownKey
    /\ tk_presses = 2
    /\ tk_failed = {"ahk"}
    /\ AhkCycles = 1
    /\ SendInputCycles = 2

\* both backends raised: fewer cycles than asked for
C35_TooFewState ==
    /\ tk_pc = "returned"
    /\ KnownKey
    /\ tk_failed = {"ahk", "sendinput"}
    /\ AhkCycles + SendInputCycles < tk_presses

\* ahk.send raised on the first press and the fallback sent every cycle
C35_CleanFallbackState ==
    /\ tk_pc = "returned"
    /\ KnownKey
    /\ tk_presses = 2
    /\ tk_failed = {"ahk"}
    /\ AhkCycles = 0
    /\ SendInputCycles = 2

-----------------------------------------------------------------------------
(* parse_predictions on boxes written by their corners                      *)

\* a corner coordinate in pixels: a fraction is multiplied by the frame's
\* dimension, a pixel value is taken as it is
InPixels(v, dim) == IF pr_units = "normalized" THEN v * dim ELSE v

\* the detection the corners describe
CornerDetection ==
    [x |-> InPixels(pr_box[1], FrameW),
     y |-> InPixels(pr_box[2], FrameH),
     width |-> InPixels(pr_box[3], FrameW) - InPixels(pr_box[1], FrameW),
     height |-> InPixels(pr_box[4], FrameH) - InPixels(pr_box[2], FrameH)]

\* fractions have a meaning only when the frame size is given
Scalable == pr_units = "pixels" \/ pr_frame # NoFrame

\* C36: for a box given by its corners, in any of the three forms,
\* parse_predictions returns one detection with x = xmin, y = ymin,
\* width = xmax - xmin and height = ymax - ymin, fractions scaled by the
\* frame size, wherever the box lies in the frame.
C36_AsStated ==
    (pr_pc = "done" /\ Scalable) => pr_out = <<CornerDetection>>

\* no written value is 0 or lies in the range maybe_scale takes for a
\* fraction
Unambiguous ==
    /\ pr_units = "pixels"
    /\ pr_frame # NoFrame
    /\ \A v \in {pr_box[1], pr_box[2], pr_box[3] - pr_box[1], pr_box[4] - pr_box[2]} :
            v > Thousandths

\* C36, what the code computes for pixel corners clear of 0 and 1: the width
\* and the height are right, and x and y are the top-left corner only when
\* xmin is less than half the width; otherwise the corner is taken for the
\* centre and both x and y are moved up and left by half the size.
C36_HalfSizeShift ==
    (pr_pc = "done" /\ Unambiguous) =>
        /\ Len(pr_out) = 1
        /\ pr_out[1].width = CornerDetection.width
        /\ pr_out[1].height = CornerDetection.height
        /\ IF 2 * pr_box[1] < CornerDetection.width
           THEN pr_out[1] = CornerDetection
           ELSE /\ pr_out[1].x = pr_box[1] - CornerDetection.width \div 2
                /\ pr_out[1].y = pr_box[2] - CornerDetection.height \div 2

\* bbox [2, 3, 5, 6] on an 8x6 frame comes out with x = 0.5 and y = 1.5
C36_ShiftedState ==
    /\ pr_pc = "done"
    /\ pr_form = "list"
    /\ pr_frame # NoFrame
    /\ pr_box = <<2000, 3000, 5000, 6000>>
    /\ pr_out = <<[x |-> 500, y |-> 1500, width |-> 3000, height |-> 3000]>>

\* top-level corners with xmin = 0 are dropped: `p.get("xmin") or ...` takes
\* the 0 for a missing value
C36_DroppedState ==
    /\ pr_pc = "done"
    /\ pr_form = "top"
    /\ pr_box[1] = 0
    /\ pr_out = <<>>

\* a box hugging the left edge comes out as written
C36_AsWrittenState ==
    /\ pr_pc = "done"
    /\ Unambiguous
    /\ pr_box = <<2000, 3000, 8000, 6000>>
    /\ pr_out = <<CornerDetection>>

-----------------------------------------------------------------------------
(* What a reported combo execution has sent                                 *)

\* the keys sent during the last call, in order
KeysSent == [i \in DOMAIN ed_last.sent |-> ed_last.sent[i].skill]

\* C37: whenever try_execute_combos, try_execute_random_combo or
\* try_stealth_attack reports a combo as executed, at least one skill key
\* was sent during the call and the skills of the combo were sent in the
\* configured order; a combo with no skills is never reported as executed.
C37_AsStated ==
    ed_last.executed =>
        /\ Len(ed_last.sent) >= 1
        /\ KeysSent = ed_last.combo.skills
        /\ ed_last.combo.skills # <<>>

\* C37, what holds: the keys sent by a call that reports a combo as executed
\* are the skills of that combo in the configured order, none when the combo
\* has none.
C37_SentAsConfigured ==
    ed_last.executed => KeysSent = ed_last.combo.skills

\* the combo New Combo has just appended is reported as executed with no
\* key sent, and its cooldown has started
C37_EmptyExecutedState ==
    /\ ed_last.executed
    /\ ed_last.combo.skills = <<>>
    /\ ed_last.sent = <<>>
    /\ ed_last.combo.name \in DOMAIN ed_m.combos

\* the same through try_stealth_attack
C37_EmptyStealthState ==
    /\ ed_last.op = "try_stealth_attack"
    /\ ed_last.executed
    /\ ed_last.sent = <<>>

\* a combo with skills is reported as executed after its keys were sent
C37_SentState ==
    /\ ed_last.executed
    /\ Len(ed_last.sent) = 3
    /\ KeysSent = COMBO_SETS[2].skills

-----------------------------------------------------------------------------
(* Where the attack click lands                                             *)

\* the click point relative to the window
ClickRelX == ck_click[1] - TargetWindow[1]
ClickRelY == ck_click[2] - TargetWindow[2]

ClickInsideBox ==
    /\ ck_target.x <= ClickRelX
    /\ ClickRelX <= ck_target.x + ck_target.width
    /\ ck_target.y <= ClickRelY
    /\ ClickRelY <= ck_target.y + ck_target.height

\* C38: the click point of an attack on a fresh mob target lies inside the
\* target's box, for every box size, every click depth from 70% to 90% and
\* every mouse jitter.
C38_AsStated == ck_pc = "done" => ClickInsideBox

\* the box leaves room for the jitter: half its width on each side of the
\* centre, 70% of its height above the highest click and 10% below the
\* lowest
RoomForJitter ==
    /\ ck_target.width >= 2 * MOUSE_JITTER_X
    /\ ck_target.height * MOB_CLICK_Y_MIN >= 100 * MOUSE_JITTER_Y
    /\ ck_target.height * (100 - MOB_CLICK_Y_MAX) >= 100 * MOUSE_JITTER_Y

\* C38, what holds: the click lies inside the box whenever the box leaves
\* room for the jitter, and without jitter for every box.
C38_InsideWhenRoom ==
    (ck_pc = "done" /\ (RoomForJitter \/ ck_a.jitter = <<0, 0>>)) => ClickInsideBox

\* a box 10 wide at x = 50: the click lands 10 pixels right of its edge
C38_BesideBoxState ==
    /\ ck_pc = "done"
    /\ ck_target.x = 50
    /\ ck_target.width = 10
    /\ ClickRelX = 70

\* a box 100 wide and 21 high: the click lands below its bottom edge
C38_BelowBoxState ==
    /\ ck_pc = "done"
    /\ ck_target.width = 100
    /\ ck_target.height = 21
    /\ ClickRelY > ck_target.y + ck_target.height

\* a box 30 wide and 150 high: the extreme draws land on its edges
C38_OnEdgeState ==
    /\ ck_pc = "done"
    /\ ck_target.width = 30
    /\ ck_target.height = 150
    /\ ClickRelX = ck_target.x + ck_target.width
    /\ ClickRelY = ck_target.y + ck_target.height

-----------------------------------------------------------------------------
(* The hunt: whom find_target picks, and whether the hunt gets under way    *)

\* within radius 6 of the player on both axes
WithinRadius(p, e) ==
    /\ Abs(e.pos[1] - p.pos.at[1]) <= 6
    /\ Abs(e.pos[2] - p.pos.at[2]) <= 6

Huntable(p, e) == is_alive(e) /\ WithinRadius(p, e)

\* e is nearer to the player than f by every usual measure: along the axes,
\* as the crow flies and by the larger of the two offsets
NearerByEveryMeasure(p, e, f) ==
    LET dx(g) == Abs(g.pos[1] - p.pos.at[1])
        dy(g) == Abs(g.pos[2] - p.pos.at[2])
    IN  /\ dx(e) + dy(e) < dx(f) + dy(f)
        /\ dx(e) * dx(e) + dy(e) * dy(e) < dx(f) * dx(f) + dy(f) * dy(f)
        /\ Max(dx(e), dy(e)) < Max(dx(f), dy(f))

\* the tick that has just run called find_target
Hunted == hn_last.op = "tick" /\ hn_last.hunted

\* C40: find_target returns a living enemy within radius 6 of the player
\* that no other such enemy is nearer than, and none exactly when no living
\* enemy is within the radius; an enemy with 0 HP is never targeted and its
\* loot table is collected at most once.
C40_AsStated ==
    /\ Hunted =>
        LET p == hn_last.player
            es == hn_last.enemies
            t == hn_last.target
        IN  /\ t = 0 <=> ~\E i \in DOMAIN es : Huntable(p, es[i])
            /\ t # 0 =>
                /\ Huntable(p, es[t])
                /\ \A j \in DOMAIN es :
                      Huntable(p, es[j]) => ~NearerByEveryMeasure(p, es[j], es[t])
    /\ \A i \in DOMAIN hn_loots : hn_loots[i] <= 1

\* C40, what holds: find_target returns the first living enemy within the
\* radius in the order of grid.enemies, and none exactly when there is no
\* such enemy; the loot table of an enemy is collected at most once.
C40_FirstListed ==
    /\ Hunted =>
        LET p == hn_last.player
            es == hn_last.enemies
            t == hn_last.target
        IN  /\ t = 0 <=> ~\E i \in DOMAIN es : Huntable(p, es[i])
            /\ t # 0 =>
                /\ Huntable(p, es[t])
                /\ \A j \in DOMAIN es : Huntable(p, es[j]) => t <= j
    /\ \A i \in DOMAIN hn_loots : hn_loots[i] <= 1

\* the player at 0,1 walks to the enemy at 6,1 while another stands at 1,1
C40_FartherTargetState ==
    /\ Hunted
    /\ hn_last.target = 1
    /\ hn_last.player.pos.at = <<0, 1>>
    /\ hn_last.enemies[1].pos = <<6, 1>>
    /\ Huntable(hn_last.player, hn_last.enemies[2])
    /\ hn_last.enemies[2].pos = <<1, 1>>

\* a living enemy out of reach, and none in reach: find_target returns none
C40_OutOfReachState ==
    /\ Hunted
    /\ hn_last.target = 0
    /\ \E i \in DOMAIN hn_last.enemies : is_alive(hn_last.enemies[i])

\* both enemies defeated and looted once each
C40_BothLootedState ==
    \A i \in DOMAIN hn_loots : hn_loots[i] = 1 /\ hn_es[i].hp = 0

\* enemy i is alive and within the radius of the player
NearAlive(i) == i \in DOMAIN hn_es /\ Huntable(hn_p, hn_es[i])

\* enemy i has been attacked and defeated, or is no longer within the radius
DefeatedOrLeft(i) ==
    \/ i \in hn_attacked /\ ~is_alive(hn_es[i])
    \/ ~WithinRadius(hn_p, hn_es[i])

\* C39: with tick() called again and again in the aggressive state, a living
\* enemy that stays within radius 6 of the player is eventually attacked and
\* defeated, whatever the player starts with.
C39_AsStated ==
    \A i \in HuntIndexes : NearAlive(i) ~> DefeatedOrLeft(i)

\* the player keeps potions, has room in the inventory beside them, and is
\* not hurt enough to drink one
Supplied ==
    /\ 0 < inv_get(hn_p.inventory, hp_potion_name)
    /\ inv_get(hn_p.inventory, hp_potion_name) < inventory_capacity
    /\ 10 * hn_p.hp >= 3 * Max(1, hn_p.max_hp)

\* C39, what holds: a supplied player defeats every enemy that stays within
\* the radius.
C39_WhenSupplied ==
    \A i \in HuntIndexes : (Supplied /\ NearAlive(i)) ~> DefeatedOrLeft(i)

\* a tick that went to the village and changed nothing: no potion, and not
\* the gold to buy one, while an enemy waits within the radius
C39_VillageForeverState ==
    /\ hn_last.op = "tick"
    /\ hn_last.village
    /\ hn_last.player = hn_p
    /\ potions_empty(hn_p)
    /\ \E i \in HuntIndexes : NearAlive(i)

\* the same with the inventory full of potions
C39_FullOfPotionsState ==
    /\ hn_last.op = "tick"
    /\ hn_last.village
    /\ hn_last.player = hn_p
    /\ ~potions_empty(hn_p)
    /\ \E i \in HuntIndexes : NearAlive(i)

\* a supplied player has defeated both enemies
C39_HuntDoneState ==
    /\ Supplied
    /\ hn_attacked = HuntIndexes
    /\ \A i \in HuntIndexes : ~is_alive(hn_es[i])

====
